---------------------------- MODULE Spec2Model ----------------------------
(***************************************************************************)
(* Workflow graph engine of the repository: the Serializer                 *)
(* (serializeWorkflow / deserializeWorkflow) and the RouterBlockHandler.   *)
(*                                                                         *)
(* JavaScript values are tagged records, so that undefined, null, strings, *)
(* booleans and arrays stay distinct and can be compared with each other.  *)
(* A computation that can throw returns Ok(v) or Throw(msg).               *)
(***************************************************************************)
EXTENDS Integers, Sequences, FiniteSets, TLC

(***************************************************************************)
(* Bounds of the model.                                                    *)
(***************************************************************************)
MaxBlocks == 2

MaxEdges == 1

(***************************************************************************)
(* JavaScript values.                                                      *)
(***************************************************************************)
JsUndef == [t |-> "undefined"]

JsNull == [t |-> "null"]

Str(s) == [t |-> "string", s |-> s]

Bool(b) == [t |-> "boolean", b |-> b]

Arr(items) == [t |-> "array", items |-> items]

Obj(fields) == [t |-> "object", fields |-> fields]

\* ToBoolean: undefined, null, "" and false are falsy.
Truthy(v) ==
    \/ v.t = "string" /\ v.s # ""
    \/ v.t = "boolean" /\ v.b
    \/ v.t = "array"
    \/ v.t = "object"

\* a ?? b
Nullish(v) == v = JsUndef \/ v = JsNull

\* obj[key] on a plain record of values: a missing key reads as undefined.
Get(params, key) == IF key \in DOMAIN params THEN params[key] ELSE JsUndef

Ok(v) == [ok |-> TRUE, val |-> v]

Throw(msg) == [ok |-> FALSE, err |-> msg]

\* JSON.parse on the texts that occur in the model; any other text is a
\* SyntaxError.
JsonParse(text) ==
    CASE text = "[]" -> Ok(Arr(<<>>))
      [] text = "{}" -> Ok(Obj(<<>>))
      [] OTHER -> Throw("SyntaxError")

\* Names that every plain object {} inherits from Object.prototype: a lookup
\* obj[name] finds them although they are not keys of the object.
ProtoKeys == {"constructor", "toString", "__proto__"}

(***************************************************************************)
(* Block registry.                                                         *)
(***************************************************************************)
SubBlockConfig(id, type, hasValue) == [id |-> id, type |-> type, hasValue |-> hasValue]

Dynamics365Block ==
    [ type |-> "dynamics365",
      name |-> "Dynamics 365",
      description |-> "Manage Dynamics 365 CRM records",
      category |-> "tools",
      bgColor |-> "#0078D4",
      subBlocks |->
        << SubBlockConfig("operation", "dropdown", FALSE),
           SubBlockConfig("credential", "oauth-input", FALSE),
           SubBlockConfig("organizationUrl", "short-input", FALSE),
           SubBlockConfig("entityType", "short-input", FALSE),
           SubBlockConfig("id", "short-input", FALSE),
           SubBlockConfig("leadOperation", "dropdown", FALSE),
           SubBlockConfig("leadStatus", "dropdown", FALSE),
           SubBlockConfig("salesOperation", "dropdown", TRUE),
           SubBlockConfig("startDate", "date-input", FALSE),
           SubBlockConfig("endDate", "date-input", FALSE),
           SubBlockConfig("data", "code", FALSE),
           SubBlockConfig("select", "short-input", FALSE),
           SubBlockConfig("filter", "short-input", FALSE),
           SubBlockConfig("maxResults", "short-input", FALSE) >>,
      access |->
        << "dynamics365_create", "dynamics365_retrieve", "dynamics365_update",
           "dynamics365_delete", "dynamics365_sales" >>,
      hasToolConfig |-> TRUE,
      inputs |->
        [ operation |-> "string", credential |-> "string",
          organizationUrl |-> "string", entityType |-> "string",
          id |-> "string", data |-> "json", select |-> "string",
          filter |-> "string", maxResults |-> "number",
          leadOperation |-> "string", leadStatus |-> "string",
          salesOperation |-> "string", startDate |-> "string",
          endDate |-> "string" ] ]

\* Dynamics365Block.tools.config.tool
Dynamics365Tool(params) ==
    LET operation == Get(params, "operation")
        salesOperation == Get(params, "salesOperation")
    IN  IF operation = Str("sales") /\ ~Truthy(salesOperation)
        THEN Throw("Sales operation type is required when operation is \"sales\"")
        ELSE CASE operation = Str("create") -> Ok("dynamics365_create")
               [] operation = Str("retrieve") -> Ok("dynamics365_retrieve")
               [] operation = Str("update") -> Ok("dynamics365_update")
               [] operation = Str("delete") -> Ok("dynamics365_delete")
               [] operation = Str("leads") -> Ok("dynamics365_leads")
               [] operation = Str("sales") -> Ok("dynamics365_sales")
               [] OTHER -> Throw("Invalid Dynamics 365 operation")

\* The agent block definition: sub-fields, accessible tools and a
\* tool-resolution function that picks the chat tool of the selected model.
AgentBlock ==
    [ type |-> "agent",
      name |-> "Agent",
      description |-> "Build an agent",
      category |-> "blocks",
      bgColor |-> "#7F2FFF",
      subBlocks |->
        << SubBlockConfig("systemPrompt", "long-input", FALSE),
           SubBlockConfig("model", "dropdown", FALSE),
           SubBlockConfig("tools", "tool-input", FALSE),
           SubBlockConfig("responseFormat", "code", FALSE) >>,
      access |-> << "openai_chat", "anthropic_chat" >>,
      hasToolConfig |-> TRUE,
      inputs |->
        [ systemPrompt |-> "string", model |-> "string", tools |-> "json",
          responseFormat |-> "json" ] ]

AgentTool(params) ==
    LET model == Get(params, "model")
    IN  CASE model = Str("gpt-4o") -> Ok("openai_chat")
          [] model = Str("claude-3-7-sonnet-latest") -> Ok("anthropic_chat")
          [] OTHER -> Throw("Invalid model selected")

\* getBlock(type): the definition, or undefined.
GetBlock(type) ==
    CASE type = "dynamics365" -> Dynamics365Block
      [] type = "agent" -> AgentBlock
      [] OTHER -> JsUndef

\* blockConfig.tools.config.tool(params)
ConfigTool(type, params) ==
    CASE type = "dynamics365" -> Dynamics365Tool(params)
      [] type = "agent" -> AgentTool(params)
      [] OTHER -> Throw("TypeError")

\* A default-value function that returns a record of the sub-field it belongs
\* to and of the params it was called with.
RecordingValue(id, params) == [t |-> "default", id |-> id, args |-> params]

\* subBlockConfig.value(params): the default-value function of a sub-field.
\* The sub-fields of a definition of type "recorder" have the recording
\* function.
SubBlockValue(type, id, params) ==
    CASE type = "dynamics365" /\ id = "salesOperation" -> Str("sales_summary")
      [] type = "recorder" -> RecordingValue(id, params)
      [] OTHER -> JsUndef

(***************************************************************************)
(* Serializer.                                                             *)
(***************************************************************************)
\* A mutation of validateBlockBeforeSerialization: a disabled block is
\* taken for an invalid one.
ValidateEnabledBlock(block) ==
    /\ block # JsNull
    /\ block.type # ""
    /\ GetBlock(block.type) # JsUndef
    /\ Truthy(block.enabled)

\* validateBlockBeforeSerialization: a block type of "" stands for a block
\* without a type (!block.type).
ValidateBlockBeforeSerialization(block) ==
    /\ block # JsNull
    /\ block.type # ""
    /\ GetBlock(block.type) # JsUndef

\* The condition of the second loop of extractParams: the collected value is
\* strictly null (an absent sub-field reads as undefined) and the sub-field
\* has a default-value function.
NeedsDefault(config, params) ==
    Get(params, config.id) = JsNull /\ config.hasValue

\* A mutation of one iteration of the second loop of extractParams: the
\* default-value function is called without the params collected so far.
ApplyDefaultWithoutParams(type, config, params) ==
    IF NeedsDefault(config, params)
    THEN (config.id :> SubBlockValue(type, config.id, <<>>)) @@ params
    ELSE params

\* One iteration of the second loop of extractParams.
ApplyDefault(type, config, params) ==
    IF NeedsDefault(config, params)
    THEN (config.id :> SubBlockValue(type, config.id, params)) @@ params
    ELSE params

\* The second loop of extractParams: the sub-fields of the definition in
\* declaration order, each default computed from the params collected so far.
RECURSIVE ApplyDefaults(_, _, _, _)
ApplyDefaults(type, configs, i, params) ==
    IF i > Len(configs)
    THEN params
    ELSE ApplyDefaults(type, configs, i + 1, ApplyDefault(type, configs[i], params))

\* extractParams
ExtractParams(block) ==
    LET blockConfig == GetBlock(block.type)
    IN  IF blockConfig = JsUndef
        THEN Throw("Invalid block type")
        ELSE Ok(ApplyDefaults(block.type, blockConfig.subBlocks, 1,
                              [id \in DOMAIN block.subBlocks |->
                                  block.subBlocks[id].value]))

\* blockConfig.tools.config?.tool ? blockConfig.tools.config.tool(params)
\*                                 : blockConfig.tools.access[0]
ToolFromConfig(blockConfig, params) ==
    IF blockConfig.hasToolConfig
    THEN ConfigTool(blockConfig.type, params)
    ELSE Ok(blockConfig.access[1])

\* A mutation of the agent branch of serializeBlock: a tool id is resolved
\* when the tools hold any entry, a custom tool included.
AgentToolIdOfAnyTool(blockConfig, params) ==
    LET given == Get(params, "tools")
        tools == IF given.t = "array" THEN Ok(given)
                 ELSE IF given.t = "string" THEN JsonParse(given.s)
                 ELSE Throw("SyntaxError")
        fallback == Ok(blockConfig.access[1])
    IN  IF ~tools.ok \/ tools.val.t # "array"
        THEN fallback
        ELSE LET resolved == ToolFromConfig(blockConfig, params)
             IN  IF Len(tools.val.items) > 0
                 THEN IF resolved.ok THEN resolved ELSE fallback
                 ELSE Ok("")

\* The agent branch of serializeBlock: its try block parses the tools and
\* resolves a tool id when a non-custom tool exists; its catch block falls
\* back to the first accessible tool.
AgentToolId(blockConfig, params) ==
    LET given == Get(params, "tools")
        tools == IF given.t = "array" THEN Ok(given)
                 ELSE IF given.t = "string" THEN JsonParse(given.s)
                 ELSE Throw("SyntaxError")
        fallback == Ok(blockConfig.access[1])
    IN  IF ~tools.ok \/ tools.val.t # "array"
        THEN fallback
        ELSE LET nonCustomTools ==
                     SelectSeq(tools.val.items,
                               LAMBDA tool : tool.type # "custom-tool")
                 resolved == ToolFromConfig(blockConfig, params)
             IN  IF Len(nonCustomTools) > 0
                 THEN IF resolved.ok THEN resolved ELSE fallback
                 ELSE Ok("")

\* The tool id of serializeBlock; a throw outside the agent branch is not
\* caught here.
ResolveToolId(block, blockConfig, params) ==
    IF block.type = "agent" /\ Truthy(Get(params, "tools"))
    THEN AgentToolId(blockConfig, params)
    ELSE ToolFromConfig(blockConfig, params)

\* The outputs of a serialized block: block.outputs overlaid with the parsed
\* responseFormat.
SerializedOutputs(block, params) ==
    LET responseFormat == Get(params, "responseFormat")
        parsed == IF responseFormat.t = "string"
                  THEN JsonParse(responseFormat.s)
                  ELSE Throw("SyntaxError")
    IN  IF ~Truthy(responseFormat)
        THEN Ok(block.outputs)
        ELSE IF parsed.ok
             THEN Ok(("responseFormat" :> parsed.val) @@ block.outputs)
             ELSE parsed

\* serializeBlock: every error is logged and thrown again.
SerializeBlock(block) ==
    LET blockConfig == GetBlock(block.type)
        params == ExtractParams(block)
        toolId == ResolveToolId(block, blockConfig, params.val)
        outputs == SerializedOutputs(block, params.val)
    IN  IF blockConfig = JsUndef THEN Throw("Invalid block type")
        ELSE IF ~params.ok THEN params
        ELSE IF ~toolId.ok THEN toolId
        ELSE IF ~outputs.ok THEN outputs
        ELSE Ok([ id |-> block.id,
                  position |-> block.position,
                  config |-> [tool |-> toolId.val, params |-> params.val],
                  inputs |-> blockConfig.inputs,
                  outputs |-> outputs.val,
                  metadata |-> [ id |-> block.type,
                                 name |-> block.name,
                                 description |-> blockConfig.description,
                                 category |-> blockConfig.category,
                                 color |-> blockConfig.bgColor ],
                  enabled |-> block.enabled ])

\* edges.map(...) of serializeWorkflow
SerializeEdge(edge) ==
    [ source |-> edge.source,
      target |-> edge.target,
      sourceHandle |-> IF Truthy(edge.sourceHandle) THEN edge.sourceHandle ELSE JsUndef,
      targetHandle |-> IF Truthy(edge.targetHandle) THEN edge.targetHandle ELSE JsUndef ]

\* A mutation of serializeWorkflow: only the edges between blocks that are
\* serialized become connections.
SerializeWorkflowOfValidEdges(blocks, edges, loops) ==
    LET validBlocks == SelectSeq(blocks, ValidateBlockBeforeSerialization)
        serialized == [i \in 1..Len(validBlocks) |-> SerializeBlock(validBlocks[i])]
        failed == {i \in 1..Len(serialized) : ~serialized[i].ok}
        first == CHOOSE i \in failed : \A j \in failed : i <= j
        ids == {validBlocks[i].id : i \in 1..Len(validBlocks)}
        validEdges == SelectSeq(edges, LAMBDA edge : edge.source \in ids /\ edge.target \in ids)
    IN  IF failed # {}
        THEN serialized[first]
        ELSE Ok([ version |-> "1.0",
                  blocks |-> [i \in 1..Len(serialized) |-> serialized[i].val],
                  connections |-> [i \in 1..Len(validEdges) |-> SerializeEdge(validEdges[i])],
                  loops |-> loops ])

\* serializeWorkflow: blocks are the values of the block record in key order.
\* The first serializeBlock that throws ends the call with that error.
SerializeWorkflow(blocks, edges, loops) ==
    LET validBlocks == SelectSeq(blocks, ValidateBlockBeforeSerialization)
        serialized == [i \in 1..Len(validBlocks) |-> SerializeBlock(validBlocks[i])]
        failed == {i \in 1..Len(serialized) : ~serialized[i].ok}
        first == CHOOSE i \in failed : \A j \in failed : i <= j
    IN  IF failed # {}
        THEN serialized[first]
        ELSE Ok([ version |-> "1.0",
                  blocks |-> [i \in 1..Len(serialized) |-> serialized[i].val],
                  connections |-> [i \in 1..Len(edges) |-> SerializeEdge(edges[i])],
                  loops |-> loops ])

\* validateSerializedBlock: metadata is undefined or a record; a metadata id
\* of "" stands for a missing id.
ValidateSerializedBlock(serializedBlock) ==
    /\ serializedBlock # JsNull
    /\ serializedBlock.metadata # JsUndef
    /\ serializedBlock.metadata.id # ""
    /\ GetBlock(serializedBlock.metadata.id) # JsUndef

\* A mutation of deserializeBlock: the subBlocks are made of the stored
\* params instead of the sub-fields of the definition.
DeserializeBlockOfStoredParams(serializedBlock) ==
    LET blockType == IF serializedBlock.metadata = JsUndef
                     THEN "" ELSE serializedBlock.metadata.id
        blockConfig == GetBlock(blockType)
        params == serializedBlock.config.params
        name == serializedBlock.metadata.name
    IN  IF blockType = "" \/ blockConfig = JsUndef
        THEN Throw("Invalid block type")
        ELSE IF serializedBlock.config = JsUndef \/ params = JsUndef
        THEN Throw("TypeError")
        ELSE Ok([ id |-> serializedBlock.id,
                  type |-> blockType,
                  name |-> IF name # "" THEN name ELSE blockConfig.name,
                  position |-> serializedBlock.position,
                  subBlocks |->
                    [ id \in DOMAIN params |->
                        [ id |-> id,
                          type |-> "short-input",
                          value |-> IF Nullish(params[id]) THEN JsNull ELSE params[id] ] ],
                  outputs |-> serializedBlock.outputs,
                  enabled |-> IF Nullish(serializedBlock.enabled)
                              THEN Bool(TRUE) ELSE serializedBlock.enabled,
                  horizontalHandles |-> TRUE,
                  isWide |-> FALSE,
                  height |-> 0 ])

\* deserializeBlock: reading config.params of a block without config or
\* without params is a TypeError.
DeserializeBlock(serializedBlock) ==
    LET blockType == IF serializedBlock.metadata = JsUndef
                     THEN "" ELSE serializedBlock.metadata.id
        blockConfig == GetBlock(blockType)
        params == serializedBlock.config.params
        name == serializedBlock.metadata.name
    IN  IF blockType = "" \/ blockConfig = JsUndef
        THEN Throw("Invalid block type")
        ELSE IF serializedBlock.config = JsUndef \/ params = JsUndef
        THEN Throw("TypeError")
        ELSE Ok([ id |-> serializedBlock.id,
                  type |-> blockType,
                  name |-> IF name # "" THEN name ELSE blockConfig.name,
                  position |-> serializedBlock.position,
                  subBlocks |->
                    [ id \in {blockConfig.subBlocks[i].id :
                                 i \in 1..Len(blockConfig.subBlocks)} |->
                        LET subBlock == CHOOSE c \in
                                {blockConfig.subBlocks[i] :
                                    i \in 1..Len(blockConfig.subBlocks)} : c.id = id
                        IN  [ id |-> subBlock.id,
                              type |-> subBlock.type,
                              value |-> IF Nullish(Get(params, id))
                                        THEN JsNull ELSE Get(params, id) ] ],
                  outputs |-> serializedBlock.outputs,
                  enabled |-> IF Nullish(serializedBlock.enabled)
                              THEN Bool(TRUE) ELSE serializedBlock.enabled,
                  horizontalHandles |-> TRUE,
                  isWide |-> FALSE,
                  height |-> 0 ])

\* blocks[key] is truthy: key is a key of the record, or a name the empty
\* object literal inherits.
HasBlock(blocks, key) ==
    \/ \E i \in 1..Len(blocks) : blocks[i].id = key
    \/ key \in ProtoKeys

\* blocks[block.id] = block on a record kept in key insertion order.
PutBlock(blocks, block) ==
    IF \E i \in 1..Len(blocks) : blocks[i].id = block.id
    THEN [i \in 1..Len(blocks) |->
             IF blocks[i].id = block.id THEN block ELSE blocks[i]]
    ELSE Append(blocks, block)

\* The first loop of deserializeWorkflow: an invalid block is skipped, a
\* block whose deserializeBlock throws is logged and skipped.
RECURSIVE DeserializeBlocks(_, _, _)
DeserializeBlocks(serializedBlocks, i, blocks) ==
    IF i > Len(serializedBlocks)
    THEN blocks
    ELSE LET block == DeserializeBlock(serializedBlocks[i])
         IN  DeserializeBlocks(serializedBlocks, i + 1,
                 IF ValidateSerializedBlock(serializedBlocks[i]) /\ block.ok
                 THEN PutBlock(blocks, block.val)
                 ELSE blocks)

\* The second loop of deserializeWorkflow; the generated edge id is the
\* position of the connection, which no other edge of the result has.
RECURSIVE DeserializeEdges(_, _, _, _)
DeserializeEdges(connections, i, blocks, edges) ==
    IF i > Len(connections)
    THEN edges
    ELSE LET connection == connections[i]
         IN  DeserializeEdges(connections, i + 1, blocks,
                 IF HasBlock(blocks, connection.source)
                    /\ HasBlock(blocks, connection.target)
                 THEN Append(edges,
                             [ id |-> [t |-> "uuid", n |-> i],
                               source |-> connection.source,
                               target |-> connection.target,
                               sourceHandle |-> connection.sourceHandle,
                               targetHandle |-> connection.targetHandle ])
                 ELSE edges)

\* deserializeWorkflow
DeserializeWorkflow(workflow) ==
    LET blocks == DeserializeBlocks(workflow.blocks, 1, <<>>)
    IN  [ blocks |-> blocks,
          edges |-> DeserializeEdges(workflow.connections, 1, blocks, <<>>) ]

(***************************************************************************)
(* Inputs of the serializer: graphs of the editor and stored documents.    *)
(***************************************************************************)
BlockKeys == <<"b1", "b2", "b3", "b4">>

Position == [x |-> 0, y |-> 0]

BlockOutputs == ("response" :> Str("json"))

NoLoops == <<>>

\* A loop of the editor over the first block.
OneLoop ==
    ("loop1" :> [id |-> "loop1", nodes |-> <<BlockKeys[1]>>, maxIterations |-> 5])

GraphLoops == {NoLoops, OneLoop}

\* The subBlocks of a BlockState of the given definition: every declared
\* sub-field except those in absent, with the given values and null elsewhere.
StateSubBlocks(blockConfig, values, absent) ==
    LET configs == {blockConfig.subBlocks[i] : i \in 1..Len(blockConfig.subBlocks)}
    IN  [ id \in {c.id : c \in configs} \ absent |->
            LET c == CHOOSE c \in configs : c.id = id
            IN  [ id |-> id,
                  type |-> c.type,
                  value |-> IF id \in DOMAIN values THEN values[id] ELSE JsNull ] ]

BlockState(id, type, name, subBlocks, enabled) ==
    [ id |-> id, type |-> type, name |-> name, position |-> Position,
      subBlocks |-> subBlocks, outputs |-> BlockOutputs, enabled |-> Bool(enabled) ]

DynamicsState(id, operation, salesOperation, enabled) ==
    BlockState(id, "dynamics365", "Dynamics 365 1",
               StateSubBlocks(Dynamics365Block,
                              ("operation" :> operation) @@
                              ("salesOperation" :> salesOperation),
                              IF salesOperation = JsUndef
                              THEN {"salesOperation"} ELSE {}),
               enabled)

AgentState(id, tools, model, responseFormat, enabled) ==
    BlockState(id, "agent", "Agent 1",
               StateSubBlocks(AgentBlock,
                              ("tools" :> tools) @@ ("model" :> model) @@
                              ("responseFormat" :> responseFormat),
                              {}),
               enabled)

CustomTool == [type |-> "custom-tool", title |-> "myTool"]

BuiltinTool == [type |-> "dynamics365", title |-> "Dynamics 365"]

\* The blocks a graph can hold under key id: null, a block without a type, a
\* block of a type the registry does not know, Dynamics 365 blocks and agent
\* blocks, among them blocks whose serialization throws.
GraphBlocks(id) ==
    { JsNull,
      BlockState(id, "", "Untyped", <<>>, TRUE),
      BlockState(id, "ghost", "Ghost", <<>>, FALSE),
      DynamicsState(id, Str("create"), JsNull, TRUE),
      DynamicsState(id, Str("create"), JsUndef, TRUE),
      DynamicsState(id, Str("sales"), JsNull, FALSE),
      DynamicsState(id, Str("sales"), JsUndef, TRUE),
      DynamicsState(id, JsNull, JsNull, TRUE),
      AgentState(id, Arr(<<CustomTool, BuiltinTool>>), Str("gpt-4o"), JsNull, TRUE),
      AgentState(id, Arr(<<CustomTool, BuiltinTool>>), Str("bad"), JsNull, FALSE),
      AgentState(id, Arr(<<CustomTool>>), Str("bad"), JsNull, TRUE),
      AgentState(id, Str("not json"), Str("gpt-4o"), JsNull, TRUE),
      AgentState(id, JsNull, Str("bad"), JsNull, TRUE),
      AgentState(id, JsNull, Str("claude-3-7-sonnet-latest"), Str("{bad"), TRUE),
      AgentState(id, Str("[]"), Str("gpt-4o"), Str("{}"), FALSE) }

\* The handles of the edge to a target: an edge without source handle, and an
\* edge to the second block with a source handle and a null target handle.
HandlesTo(target) ==
    IF target = BlockKeys[2]
    THEN [sourceHandle |-> Str("out"), targetHandle |-> JsNull]
    ELSE [sourceHandle |-> JsUndef, targetHandle |-> Str("in")]

\* Edges of the editor. They leave the first block and end at one of the
\* first two blocks or at a name that is no block of the graph.
EdgeTargets == {BlockKeys[1], BlockKeys[2], "constructor"}

GraphEdges ==
    { [ id |-> Str("e"), source |-> BlockKeys[1], target |-> target,
        sourceHandle |-> HandlesTo(target).sourceHandle,
        targetHandle |-> HandlesTo(target).targetHandle ] :
      target \in EdgeTargets }

RECURSIVE SeqsUpTo(_, _)
SeqsUpTo(S, n) ==
    IF n = 0 THEN {<<>>}
    ELSE SeqsUpTo(S, n - 1) \cup
         {Append(front, last) : front \in {q \in SeqsUpTo(S, n - 1) : Len(q) = n - 1},
                                last \in S}

\* Blocks of a stored document under id: a well-formed block, a block stored
\* without its enabled flag and with params of an older definition, and
\* damaged ones (null, no metadata, no metadata id, unknown type, no config,
\* no config and an id that is the name of a member of Object.prototype).
StoredBlocks(id) ==
    LET good == SerializeBlock(DynamicsState(id, Str("create"), JsNull, FALSE)).val
    IN  { good,
          [good EXCEPT !.enabled = JsUndef,
                       !.config.params = ("operation" :> Str("update")) @@
                                         ("legacy" :> Str("x"))],
          JsNull,
          [good EXCEPT !.metadata = JsUndef],
          [good EXCEPT !.metadata.id = ""],
          [good EXCEPT !.metadata.id = "ghost"],
          [good EXCEPT !.config = JsUndef],
          [good EXCEPT !.id = "toString", !.config = JsUndef] }

StoredConnections ==
    { [ source |-> source, target |-> target,
        sourceHandle |-> JsUndef, targetHandle |-> Str("in") ] :
      source \in {BlockKeys[1], "toString"}, target \in EdgeTargets }

\* The block lists of n keys: the i-th block is one of GraphBlocks(BlockKeys[i]).
RECURSIVE GraphBlockLists(_)
GraphBlockLists(n) ==
    IF n = 0 THEN {<<>>}
    ELSE {Append(front, last) : front \in GraphBlockLists(n - 1),
                                last \in GraphBlocks(BlockKeys[n])}

RECURSIVE StoredBlockLists(_)
StoredBlockLists(n) ==
    IF n = 0 THEN {<<>>}
    ELSE {Append(front, last) : front \in StoredBlockLists(n - 1),
                                last \in StoredBlocks(BlockKeys[n])}

NoDocument == [version |-> "none"]

NoGraph == [blocks |-> <<>>, edges |-> <<>>]

NoResult == [ok |-> FALSE, err |-> "none"]

(***************************************************************************)
(* State of the serializer's callers: the graph of the editor, the         *)
(* document produced from it or read from storage, the graph loaded from   *)
(* the document, and the result of serializing the loaded graph again.     *)
(***************************************************************************)
VARIABLES pc, graph, document, thrown, loaded, resaved

serVars == <<pc, graph, document, thrown, loaded, resaved>>

\* A graph being edited, not yet serialized.
InitGraph ==
    /\ pc = "editing"
    /\ \E blocks \in GraphBlockLists(MaxBlocks), edges \in SeqsUpTo(GraphEdges, MaxEdges),
          loops \in GraphLoops :
          graph = [blocks |-> blocks, edges |-> edges, loops |-> loops]
    /\ document = NoDocument
    /\ thrown = ""
    /\ loaded = NoGraph
    /\ resaved = NoResult

\* A document that comes from storage.
InitStored ==
    /\ pc = "stored"
    /\ graph = NoGraph
    /\ \E blocks \in StoredBlockLists(MaxBlocks),
          connections \in SeqsUpTo(StoredConnections, MaxEdges) :
          document = [ version |-> "1.0", blocks |-> blocks,
                       connections |-> connections, loops |-> NoLoops ]
    /\ thrown = ""
    /\ loaded = NoGraph
    /\ resaved = NoResult

SerInit == InitGraph \/ InitStored

\* serializeWorkflow(graph): the document, or the error it throws.
Serialize ==
    /\ pc = "editing"
    /\ LET result == SerializeWorkflow(graph.blocks, graph.edges, graph.loops)
       IN  IF result.ok
           THEN /\ pc' = "saved"
                /\ document' = result.val
                /\ thrown' = thrown
           ELSE /\ pc' = "failed"
                /\ document' = document
                /\ thrown' = result.err
    /\ UNCHANGED <<graph, loaded, resaved>>

\* deserializeWorkflow(document)
Deserialize ==
    /\ pc \in {"saved", "stored"}
    /\ loaded' = DeserializeWorkflow(document)
    /\ pc' = IF pc = "saved" THEN "loaded" ELSE "imported"
    /\ UNCHANGED <<graph, document, thrown, resaved>>

\* serializeWorkflow of the graph that deserializeWorkflow returned.
SerializeAgain ==
    /\ pc \in {"loaded", "imported"}
    /\ resaved' = SerializeWorkflow(loaded.blocks, loaded.edges, NoLoops)
    /\ pc' = IF pc = "loaded" THEN "resaved" ELSE "reexported"
    /\ UNCHANGED <<graph, document, thrown, loaded>>

(***************************************************************************)
(* Properties of the serializer.                                           *)
(***************************************************************************)
Range(seq) == {seq[i] : i \in 1..Len(seq)}

\* A block that the serializer has to leave out: null, without a type, or of
\* a type that does not resolve in the registry.
Unresolvable(block) ==
    \/ block = JsNull
    \/ block.type = ""
    \/ GetBlock(block.type) = JsUndef

ResolvableIds(blocks) == {b.id : b \in {x \in Range(blocks) : ~Unresolvable(x)}}

SerializeReturned == pc \in {"saved", "loaded", "resaved"}

DeserializeReturned == pc \in {"loaded", "resaved", "imported", "reexported"}

SameEndpoints(edge, connection) ==
    /\ edge.source = connection.source
    /\ edge.target = connection.target
    /\ edge.sourceHandle = connection.sourceHandle
    /\ edge.targetHandle = connection.targetHandle

\* C1: round trip. For a graph whose blocks all resolve in the registry,
\* serializeWorkflow returns a document, deserializeWorkflow of it holds
\* exactly the block ids of the graph with their enabled flags and one edge
\* with the same source, target and handles for every connection between
\* blocks of the graph, and serializing the loaded graph again gives every
\* block the same config.tool.
RoundTripPreserves ==
    (pc # "editing" /\ pc # "stored" /\ \A b \in Range(graph.blocks) : ~Unresolvable(b)) =>
        /\ pc # "failed"
        /\ pc \in {"loaded", "resaved"} =>
              /\ {b.id : b \in Range(loaded.blocks)} = {b.id : b \in Range(graph.blocks)}
              /\ \A b \in Range(graph.blocks) : \E l \in Range(loaded.blocks) :
                    l.id = b.id /\ l.enabled = b.enabled
              /\ \A e \in Range(graph.edges) :
                    (\E b \in Range(graph.blocks) : b.id = e.source)
                    /\ (\E b \in Range(graph.blocks) : b.id = e.target)
                    => \E l \in Range(loaded.edges) : SameEndpoints(l, e)
        /\ pc = "resaved" =>
              /\ resaved.ok
              /\ \A d \in Range(document.blocks) : \E r \in Range(resaved.val.blocks) :
                    r.id = d.id /\ r.config.tool = d.config.tool

\* C2: invalid block exclusion. The document that serializeWorkflow returns
\* holds no null entry and exactly the blocks of the graph that are not null,
\* have a type and resolve in the registry, and so does the graph that
\* deserializeWorkflow makes of that document.
InvalidBlocksExcluded ==
    /\ SerializeReturned =>
          /\ \A d \in Range(document.blocks) : d # JsNull
          /\ {d.id : d \in Range(document.blocks)} = ResolvableIds(graph.blocks)
          /\ Len(document.blocks) = Cardinality(ResolvableIds(graph.blocks))
    /\ pc \in {"loaded", "resaved"} =>
          {l.id : l \in Range(loaded.blocks)} = ResolvableIds(graph.blocks)

\* C2 witness: a graph with a block of an unknown type and a disabled
\* resolvable block has been serialized and loaded again.
InvalidBlockDropped ==
    /\ pc = "loaded"
    /\ \E b \in Range(graph.blocks) : b # JsNull /\ b.type = "ghost"
    /\ \E b \in Range(graph.blocks) : ~Unresolvable(b) /\ b.enabled = Bool(FALSE)
    /\ Len(document.blocks) = 1
    /\ Len(loaded.blocks) = 1

\* C3: dangling connection removal. Every edge that deserializeWorkflow
\* returns has a source and a target that are keys of the returned blocks.
NoDanglingEdges ==
    DeserializeReturned =>
        \A e \in Range(loaded.edges) :
            /\ \E l \in Range(loaded.blocks) : l.id = e.source
            /\ \E l \in Range(loaded.blocks) : l.id = e.target

\* C4: serializeWorkflow returns a document for every input, a block whose
\* processing fails does not abort the call.
SerializeNeverAborts == pc # "failed"

\* The tool-resolution function of the block's definition is called by
\* serializeBlock and throws.
ToolResolutionThrows(block) ==
    /\ ~Unresolvable(block)
    /\ LET params == ExtractParams(block).val
           tools == Get(params, "tools")
       IN  /\ ~ConfigTool(block.type, params).ok
           /\ (block.type = "agent" /\ Truthy(tools)) =>
                 /\ tools.t = "array"
                 /\ \E i \in 1..Len(tools.items) : tools.items[i].type # "custom-tool"

\* C5: tool-resolution fallback. Once serializeWorkflow has run on a graph
\* with a block whose tool-resolution function throws, it has returned a
\* document in which that block has the first accessible tool of its
\* definition as config.tool.
ToolFallbackForEveryType ==
    (pc # "editing" /\ pc # "stored") =>
        \A b \in Range(graph.blocks) :
            ToolResolutionThrows(b) =>
                /\ pc # "failed"
                /\ \E d \in Range(document.blocks) :
                      d.id = b.id /\ d.config.tool = GetBlock(b.type).access[1]

\* The value of a sub-field in a block of the editor: undefined when the
\* block has no such sub-field.
CurrentValue(block, id) ==
    IF id \in DOMAIN block.subBlocks THEN block.subBlocks[id].value ELSE JsUndef

\* C21: default-value application. In the document that serializeWorkflow
\* returns, a sub-field whose definition has a default-value function has
\* the result of that function as its param whenever its value in the graph
\* is null or the sub-field is absent from the block, and a sub-field with
\* another value keeps that value.
DefaultsForNullAndAbsent ==
    SerializeReturned =>
        \A b \in Range(graph.blocks) : \A d \in Range(document.blocks) :
            (~Unresolvable(b) /\ d.id = b.id) =>
                \A c \in Range(GetBlock(b.type).subBlocks) :
                    /\ (c.hasValue /\ Nullish(CurrentValue(b, c.id))) =>
                          Get(d.config.params, c.id) =
                              SubBlockValue(b.type, c.id, d.config.params)
                    /\ ~Nullish(CurrentValue(b, c.id)) =>
                          Get(d.config.params, c.id) = CurrentValue(b, c.id)

StoredOf(workflow) == {d \in Range(workflow.blocks) : d # JsNull}

\* deserializeBlock throws inside: the block passes validateSerializedBlock
\* and has no config or no params.
FailsInside(serializedBlock) ==
    /\ ValidateSerializedBlock(serializedBlock)
    /\ \/ serializedBlock.config = JsUndef
       \/ serializedBlock.config.params = JsUndef

\* C24: deserialize reconciles to the current definition. Every block that
\* deserializeWorkflow returns has exactly the sub-fields that the
\* definition of its type declares: a sub-field has its value of
\* config.params when there is one and null otherwise, a key of
\* config.params that the definition does not declare is dropped, and
\* enabled is true when the document has no enabled flag.
DefinitionReconciled ==
    DeserializeReturned =>
        \A l \in Range(loaded.blocks) :
            \E d \in StoredOf(document) :
                /\ d.id = l.id
                /\ DOMAIN l.subBlocks =
                      {c.id : c \in Range(GetBlock(d.metadata.id).subBlocks)}
                /\ \A id \in DOMAIN l.subBlocks :
                      /\ l.subBlocks[id].id = id
                      /\ l.subBlocks[id].value =
                            IF id \in DOMAIN d.config.params /\ ~Nullish(d.config.params[id])
                            THEN d.config.params[id] ELSE JsNull
                /\ l.enabled = IF d.enabled = JsUndef THEN Bool(TRUE) ELSE d.enabled

\* C24 witness: a document block stored without enabled flag, with a param
\* of an older definition and without most declared params has been loaded.
StaleBlockReconciled ==
    /\ pc = "imported"
    /\ \E l \in Range(loaded.blocks) : \E d \in StoredOf(document) :
          /\ d.id = l.id
          /\ d.enabled = JsUndef
          /\ "legacy" \in DOMAIN d.config.params
          /\ "salesOperation" \notin DOMAIN d.config.params
          /\ "legacy" \notin DOMAIN l.subBlocks
          /\ l.subBlocks["operation"].value = Str("update")
          /\ l.subBlocks["salesOperation"].value = JsNull
          /\ l.enabled = Bool(TRUE)

\* C25: deserialize isolates an internal failure. After deserializeWorkflow
\* of a document with a block that passes validation and makes
\* deserializeBlock throw, that block is not among the returned blocks, no
\* returned edge has it as source or target, and every valid block that
\* does not fail is among the returned blocks.
FailedBlockIsolated ==
    DeserializeReturned =>
        \A d \in StoredOf(document) :
            /\ FailsInside(d) =>
                  /\ \A l \in Range(loaded.blocks) : l.id # d.id
                  /\ \A e \in Range(loaded.edges) : e.source # d.id /\ e.target # d.id
            /\ (ValidateSerializedBlock(d) /\ ~FailsInside(d)) =>
                  \E l \in Range(loaded.blocks) : l.id = d.id

\* The tools of an agent block as a sequence: the array, or the array that
\* the JSON text parses to.
ToolEntries(tools) ==
    IF tools.t = "array" THEN Ok(tools.items)
    ELSE IF tools.t = "string" /\ JsonParse(tools.s).ok /\ JsonParse(tools.s).val.t = "array"
    THEN Ok(JsonParse(tools.s).val.items)
    ELSE Throw("not a sequence")

\* C26: agent tool resolution. In the document that serializeWorkflow
\* returns, an agent block whose tools are a sequence or the JSON text of
\* one has the tool of its model (the first accessible tool when the
\* tool-resolution function throws) as config.tool when the sequence has an
\* entry that is not a custom tool, and "" when the sequence is empty or
\* has custom tools only; an agent block whose tools are null or empty has
\* the tool of its model, as a block of another type has.
AgentToolByNonCustomTools ==
    SerializeReturned =>
        \A b \in Range(graph.blocks) : \A d \in Range(document.blocks) :
            (~Unresolvable(b) /\ b.type = "agent" /\ d.id = b.id) =>
                LET tools == CurrentValue(b, "tools")
                    entries == ToolEntries(tools)
                    byModel == AgentTool(("model" :> CurrentValue(b, "model")))
                IN  /\ ~Truthy(tools) => byModel.ok /\ d.config.tool = byModel.val
                    /\ (Truthy(tools) /\ entries.ok) =>
                          IF \E i \in DOMAIN entries.val : entries.val[i].type # "custom-tool"
                          THEN d.config.tool =
                                  IF byModel.ok THEN byModel.val ELSE AgentBlock.access[1]
                          ELSE d.config.tool = ""

\* C26 witness: a graph with an agent block that has a custom and a built-in
\* tool and an agent block that has a custom tool only has been serialized;
\* the first has the tool of its model, the second has no tool.
CustomToolsLeaveToolEmpty ==
    /\ pc = "saved"
    /\ \E b \in Range(graph.blocks) : \E d \in Range(document.blocks) :
          /\ b # JsNull /\ b.type = "agent" /\ d.id = b.id
          /\ CurrentValue(b, "tools") = Arr(<<CustomTool, BuiltinTool>>)
          /\ d.config.tool = "openai_chat"
    /\ \E b \in Range(graph.blocks) : \E d \in Range(document.blocks) :
          /\ b # JsNull /\ b.type = "agent" /\ d.id = b.id
          /\ CurrentValue(b, "tools") = Arr(<<CustomTool>>)
          /\ d.config.tool = ""

(***************************************************************************)
(* Router handler. Block ids and the decision text are sequences of        *)
(* characters, so that trim() and toLowerCase() act on them as in the code.*)
(***************************************************************************)
MaxConnections == 2

MaxContentLen == 2

\* String.prototype.toLowerCase on the characters of the model.
LowerChar(c) == IF c = "B" THEN "b" ELSE IF c = "C" THEN "c" ELSE c

ToLowerCase(text) == [i \in 1..Len(text) |-> LowerChar(text[i])]

\* String.prototype.trim
RECURSIVE Trim(_)
Trim(text) ==
    IF text = <<>> THEN text
    ELSE IF Head(text) = " " THEN Trim(Tail(text))
    ELSE IF text[Len(text)] = " " THEN Trim(SubSeq(text, 1, Len(text) - 1))
    ELSE text

\* A mutation of the decision normalisation: toLowerCase() is left out.
ChosenBlockIdAsGiven(content) == Trim(content)

\* result.content.trim().toLowerCase()
ChosenBlockId(content) == ToLowerCase(Trim(content))

\* workflow.blocks.find(b => b.id === id): the first block with the id, or
\* undefined.
FindBlock(workflow, id) ==
    LET hits == {i \in 1..Len(workflow.blocks) : workflow.blocks[i].id = id}
    IN  IF hits = {} THEN JsUndef
        ELSE workflow.blocks[CHOOSE i \in hits : \A j \in hits : i <= j]

\* A mutation of the enabled test: every target counts as enabled.
AlwaysEnabled(targetBlock) == TRUE

\* targetBlock.enabled as tested by validateRouterConfiguration and by
\* getTargetBlocks.
IsEnabled(targetBlock) == Truthy(targetBlock.enabled)

RouterError(name, arg, router) == [name |-> name, arg |-> arg, router |-> router]

OutgoingConnections(block, context) ==
    SelectSeq(context.workflow.connections, LAMBDA conn : conn.source = block.id)

\* A mutation of the forEach of validateRouterConfiguration: a target that is
\* not a block of the workflow is passed over, only a disabled one throws.
RECURSIVE ValidateFoundTargets(_, _, _, _)
ValidateFoundTargets(block, context, connections, i) ==
    IF i > Len(connections)
    THEN Ok(JsUndef)
    ELSE LET targetBlock == FindBlock(context.workflow, connections[i].target)
         IN  IF targetBlock # JsUndef /\ ~IsEnabled(targetBlock)
             THEN Throw(RouterError("Target block is disabled for router",
                                    connections[i].target, block.id))
             ELSE ValidateFoundTargets(block, context, connections, i + 1)

\* The forEach of validateRouterConfiguration: the first connection whose
\* target is missing or disabled throws.
RECURSIVE ValidateTargets(_, _, _, _)
ValidateTargets(block, context, connections, i) ==
    IF i > Len(connections)
    THEN Ok(JsUndef)
    ELSE LET targetBlock == FindBlock(context.workflow, connections[i].target)
         IN  IF targetBlock = JsUndef
             THEN Throw(RouterError("Target block not found for router",
                                    connections[i].target, block.id))
             ELSE IF ~IsEnabled(targetBlock)
             THEN Throw(RouterError("Target block is disabled for router",
                                    connections[i].target, block.id))
             ELSE ValidateTargets(block, context, connections, i + 1)

\* A mutation of validateRouterConfiguration: the check for an empty list of
\* outgoing connections is left out.
ValidateTargetsOnly(block, context) ==
    ValidateTargets(block, context, OutgoingConnections(block, context), 1)

\* validateRouterConfiguration
ValidateRouterConfiguration(block, context) ==
    LET outgoingConnections == OutgoingConnections(block, context)
    IN  IF Len(outgoingConnections) = 0
        THEN Throw(RouterError("Router block has no outgoing connections",
                               <<>>, block.id))
        ELSE ValidateTargets(block, context, outgoingConnections, 1)

\* The candidate that getTargetBlocks builds of one target block.
TargetBlock(targetBlock, context) ==
    LET params == targetBlock.config.params
        systemPrompt ==
            IF targetBlock.metadata.id # "agent" THEN Str("")
            ELSE IF Truthy(Get(params, "systemPrompt")) THEN Get(params, "systemPrompt")
            ELSE IF Truthy(Get(targetBlock.inputs, "systemPrompt"))
                 THEN Get(targetBlock.inputs, "systemPrompt")
            ELSE Str("")
    IN  [ id |-> targetBlock.id,
          type |-> IF targetBlock.metadata.id # "" THEN targetBlock.metadata.id
                   ELSE "unknown",
          title |-> IF Truthy(targetBlock.metadata.name) THEN targetBlock.metadata.name
                    ELSE Str("Untitled Block"),
          description |-> targetBlock.metadata.description,
          subBlocks |-> ("systemPrompt" :> systemPrompt) @@ params,
          currentState |-> IF targetBlock.id \in DOMAIN context.blockStates
                           THEN context.blockStates[targetBlock.id].output
                           ELSE JsUndef ]

\* A mutation of getTargetBlocks: a target that an earlier connection of the
\* list already has gives no second candidate.
RECURSIVE TargetBlocksOfDistinctTargets(_, _, _)
TargetBlocksOfDistinctTargets(context, connections, i) ==
    IF i > Len(connections)
    THEN <<>>
    ELSE LET targetBlock == FindBlock(context.workflow, connections[i].target)
             rest == TargetBlocksOfDistinctTargets(context, connections, i + 1)
         IN  IF targetBlock = JsUndef \/ ~IsEnabled(targetBlock)
                \/ \E j \in 1..(i - 1) : connections[j].target = connections[i].target
             THEN rest
             ELSE <<TargetBlock(targetBlock, context)>> \o rest

\* getTargetBlocks: one candidate for every outgoing connection whose target
\* exists and is enabled, in connection order.
RECURSIVE TargetBlocksOf(_, _, _)
TargetBlocksOf(context, connections, i) ==
    IF i > Len(connections)
    THEN <<>>
    ELSE LET targetBlock == FindBlock(context.workflow, connections[i].target)
             rest == TargetBlocksOf(context, connections, i + 1)
         IN  IF targetBlock = JsUndef \/ ~IsEnabled(targetBlock)
             THEN rest
             ELSE <<TargetBlock(targetBlock, context)>> \o rest

\* A mutation of getTargetBlocks: the connections are not filtered by their
\* source, so the targets of every connection of the workflow are candidates.
GetTargetBlocksOfAllConnections(block, context) ==
    TargetBlocksOf(context, context.workflow.connections, 1)

GetTargetBlocks(block, context) ==
    TargetBlocksOf(context, OutgoingConnections(block, context), 1)

\* A mutation of the candidate lookup: an unmatched decision falls back to
\* the first candidate.
FirstCandidateFallback(targetBlocks, chosenBlockId) ==
    LET hits == {i \in 1..Len(targetBlocks) : targetBlocks[i].id = chosenBlockId}
    IN  IF hits = {} THEN targetBlocks[1]
        ELSE targetBlocks[CHOOSE i \in hits : \A j \in hits : i <= j]

\* targetBlocks.find((b) => b.id === chosenBlockId)
FindChosenBlock(targetBlocks, chosenBlockId) ==
    LET hits == {i \in 1..Len(targetBlocks) : targetBlocks[i].id = chosenBlockId}
    IN  IF hits = {} THEN JsUndef
        ELSE targetBlocks[CHOOSE i \in hits : \A j \in hits : i <= j]

\* A mutation of the token defaults: a missing total is inferred from the
\* other two counts.
CountInferred(tokens, field) ==
    IF field \in DOMAIN tokens THEN tokens[field]
    ELSE IF field = "total"
         THEN (IF "prompt" \in DOMAIN tokens THEN tokens["prompt"] ELSE 0)
              + (IF "completion" \in DOMAIN tokens THEN tokens["completion"] ELSE 0)
    ELSE 0

\* tokens.field || 0: a count the provider left out is a missing field.
CountOrZero(tokens, field) ==
    IF field \in DOMAIN tokens THEN tokens[field] ELSE 0

\* The value execute returns.
RouterOutput(inputs, result, chosenBlock) ==
    LET tokens == IF result.tokens = JsUndef
                  THEN [prompt |-> 0, completion |-> 0, total |-> 0]
                  ELSE result.tokens
    IN  [ response |->
            [ content |-> inputs.prompt,
              model |-> result.model,
              tokens |-> [ prompt |-> CountOrZero(tokens, "prompt"),
                           completion |-> CountOrZero(tokens, "completion"),
                           total |-> CountOrZero(tokens, "total") ],
              selectedPath |->
                [ blockId |-> chosenBlock.id,
                  blockType |-> IF chosenBlock.type # "" THEN chosenBlock.type
                                ELSE "unknown",
                  blockTitle |-> IF Truthy(chosenBlock.title) THEN chosenBlock.title
                                 ELSE Str("Untitled Block") ] ] ]

\* A mutation of the prompt check: only an absent prompt is refused, the
\* empty string passes.
PromptAbsent(prompt) == prompt = JsUndef

\* !routerConfig.prompt
PromptMissing(prompt) == ~Truthy(prompt)

\* A mutation of the error of a response that is not ok: the body is not
\* read, the message always carries the status.
ProviderStatusError(response) ==
    RouterError("Provider API request failed with status", response.status, <<>>)

\* The error of a response that is not ok: the error field of a JSON body
\* when it is truthy, else the message with the status.
ProviderError(response) ==
    IF response.json /\ Truthy(response.body.error)
    THEN RouterError(response.body.error.s, <<>>, <<>>)
    ELSE RouterError("Provider API request failed with status", response.status, <<>>)

(***************************************************************************)
(* Inputs of the router handler.                                           *)
(***************************************************************************)
RouterBlock ==
    [ id |-> <<"r">>, enabled |-> Bool(TRUE),
      metadata |-> [id |-> "router", name |-> Str("Router 1"), description |-> Str("")],
      config |-> [tool |-> "", params |-> <<>>],
      inputs |-> <<>> ]

TargetIds == << <<"b">>, <<"B">>, <<"c">> >>

\* The block of the workflow with the given id: an agent with a system
\* prompt, a Dynamics 365 block, or an agent without a name.
WorkflowBlock(id, enabled) ==
    CASE id = <<"b">> ->
           [ id |-> id, enabled |-> Bool(enabled),
             metadata |-> [id |-> "agent", name |-> Str("Agent 1"),
                           description |-> Str("Build an agent")],
             config |-> [tool |-> "openai_chat",
                         params |-> ("systemPrompt" :> Str("You answer billing questions"))],
             inputs |-> ("systemPrompt" :> Str("string")) ]
      [] id = <<"B">> ->
           [ id |-> id, enabled |-> Bool(enabled),
             metadata |-> [id |-> "dynamics365", name |-> Str("Dynamics 365 1"),
                           description |-> Str("Manage Dynamics 365 CRM records")],
             config |-> [tool |-> "dynamics365_create",
                         params |-> ("operation" :> Str("create"))],
             inputs |-> ("operation" :> Str("string")) ]
      [] OTHER ->
           [ id |-> id, enabled |-> Bool(enabled),
             metadata |-> [id |-> "agent", name |-> JsUndef, description |-> JsUndef],
             config |-> [tool |-> "", params |-> ("systemPrompt" :> JsNull)],
             inputs |-> ("systemPrompt" :> Str("string")) ]

\* The block lists of a workflow: the router and, for every target id, no
\* block, an enabled block or a disabled block.
RECURSIVE WorkflowBlocks(_)
WorkflowBlocks(n) ==
    IF n = 0 THEN {<<RouterBlock>>}
    ELSE LET front == WorkflowBlocks(n - 1)
         IN  front \cup {Append(blocks, WorkflowBlock(TargetIds[n], enabled)) :
                            blocks \in front, enabled \in BOOLEAN}

WorkflowConnections ==
    { [source |-> source, target |-> target] :
      source \in {RouterBlock.id, <<"b">>}, target \in Range(TargetIds) }

Prompts == {JsUndef, Str(""), Str("Route billing questions to b")}

Alphabet == {" ", "b", "B", "c"}

\* The provider's responses: a decision text with full, partial or no token
\* counts and with the model name the provider reports (the requested name
\* or the name of the snapshot that served it), and failures with and
\* without a JSON error body.
ProviderResponses ==
    { [ ok |-> TRUE, content |-> content, model |-> usage.model, tokens |-> usage.tokens ] :
        content \in SeqsUpTo(Alphabet, MaxContentLen),
        usage \in { [model |-> Str("gpt-4o"), tokens |-> JsUndef],
                    [model |-> Str("gpt-4o"), tokens |-> [prompt |-> 7]],
                    [model |-> Str("gpt-4o"),
                     tokens |-> [prompt |-> 7, completion |-> 1, total |-> 8]],
                    [model |-> Str("gpt-4o-2024-08-06"),
                     tokens |-> [prompt |-> 7, completion |-> 1]] } }
    \cup
    { [ ok |-> FALSE, status |-> <<"5", "0", "0">>, json |-> json, body |-> [error |-> error] ] :
        json \in BOOLEAN, error \in {JsUndef, Str(""), Str("rate limited")} }

NoOutput == [response |-> JsUndef]

NoError == RouterError("", <<>>, <<>>)

NoRequest == [provider |-> ""]

NoResponse == [ok |-> FALSE, status |-> <<>>]

(***************************************************************************)
(* State of one execution of the router handler: where execute stands, its *)
(* arguments (inputs, context), the candidate list it built, the provider  *)
(* request it sent and the response it got, and how it ended.              *)
(***************************************************************************)
VARIABLES rpc, context, inputs, targetBlocks, fetchCalls, request, response,
          output, error

routerVars == <<rpc, context, inputs, targetBlocks, fetchCalls, request, response,
                output, error>>

RouterInit ==
    /\ rpc = "ready"
    /\ \E blocks \in WorkflowBlocks(Len(TargetIds)),
          connections \in SeqsUpTo(WorkflowConnections, MaxConnections) :
          context = [ workflow |-> [ version |-> "1.0", blocks |-> blocks,
                                     connections |-> connections, loops |-> NoLoops ],
                      workflowId |-> "wf-1",
                      blockStates |-> (<<"b">> :> [output |-> Str("earlier answer")]) ]
    /\ \E prompt \in Prompts :
          inputs = [ prompt |-> prompt, model |-> JsUndef, apiKey |-> Str("key"),
                     temperature |-> JsUndef ]
    /\ targetBlocks = <<>>
    /\ fetchCalls = 0
    /\ request = NoRequest
    /\ response = NoResponse
    /\ output = NoOutput
    /\ error = NoError

\* No router execution takes part in the serializer's behaviours.
RouterIdle ==
    /\ rpc = "idle"
    /\ context = [ workflow |-> [ version |-> "1.0", blocks |-> <<>>,
                                  connections |-> <<>>, loops |-> NoLoops ],
                   workflowId |-> "", blockStates |-> <<>> ]
    /\ inputs = [ prompt |-> JsUndef, model |-> JsUndef, apiKey |-> JsUndef,
                  temperature |-> JsUndef ]
    /\ targetBlocks = <<>>
    /\ fetchCalls = 0
    /\ request = NoRequest
    /\ response = NoResponse
    /\ output = NoOutput
    /\ error = NoError

\* No serializer call takes part in the router's behaviours.
SerializerIdle ==
    /\ pc = "idle"
    /\ graph = NoGraph
    /\ document = NoDocument
    /\ thrown = ""
    /\ loaded = NoGraph
    /\ resaved = NoResult

\* execute, from its start to the provider call (lines 60-104) on its
\* arguments: the configuration is validated, the candidates are built, the
\* prompt is required, and the request is made; every throw ends the
\* execution. The result holds where execute stands, the candidate list, the
\* request sent with fetch and the error thrown.
ExecuteToFetch(block, args, ctx) ==
    LET valid == ValidateRouterConfiguration(block, ctx)
        targets == GetTargetBlocks(block, ctx)
        model == IF Truthy(args.model) THEN args.model ELSE Str("gpt-4o")
        temperature == IF Truthy(args.temperature) THEN args.temperature ELSE 0
    IN  IF ~valid.ok
        THEN [ rpc |-> "threw", targetBlocks |-> <<>>, request |-> NoRequest,
               error |-> valid.err ]
        ELSE IF Len(targets) = 0
        THEN [ rpc |-> "threw", targetBlocks |-> targets, request |-> NoRequest,
               error |-> RouterError("Router block has no valid target blocks",
                                     <<>>, block.id) ]
        ELSE IF PromptMissing(args.prompt)
        THEN [ rpc |-> "threw", targetBlocks |-> targets, request |-> NoRequest,
               error |-> RouterError("Router prompt is required", <<>>, <<>>) ]
        ELSE [ rpc |-> "awaitingProvider", targetBlocks |-> targets,
               request |-> [ provider |-> model.s,
                             model |-> model,
                             systemPrompt |-> [ prompt |-> args.prompt,
                                                targetBlocks |-> targets ],
                             context |-> <<[role |-> "user", content |-> args.prompt]>>,
                             temperature |-> temperature,
                             apiKey |-> args.apiKey,
                             workflowId |-> ctx.workflowId ],
               error |-> NoError ]

\* execute, after the provider call (lines 106-153): a response that is not
\* ok throws its error; the decision of an ok response is normalised and
\* looked up among the candidates, and execute returns the output or throws.
ExecuteFromFetch(args, candidates, result) ==
    IF ~result.ok
    THEN [ rpc |-> "threw", output |-> NoOutput, error |-> ProviderError(result) ]
    ELSE LET chosenBlockId == ChosenBlockId(result.content)
             chosenBlock == FindChosenBlock(candidates, chosenBlockId)
         IN  IF chosenBlock = JsUndef
             THEN [ rpc |-> "threw", output |-> NoOutput,
                    error |-> RouterError("Invalid routing decision",
                                          chosenBlockId, <<>>) ]
             ELSE [ rpc |-> "returned",
                    output |-> RouterOutput(args, result, chosenBlock),
                    error |-> NoError ]

\* One execution of the handler, up to the provider call.
Execute ==
    /\ rpc = "ready"
    /\ LET step == ExecuteToFetch(RouterBlock, inputs, context)
       IN  /\ rpc' = step.rpc
           /\ targetBlocks' = step.targetBlocks
           /\ request' = step.request
           /\ error' = step.error
           /\ fetchCalls' = IF step.rpc = "awaitingProvider"
                            THEN fetchCalls + 1 ELSE fetchCalls
    /\ UNCHANGED <<context, inputs, response, output>>

\* One execution of the handler, resumed with the provider's response.
ProviderResponds ==
    /\ rpc = "awaitingProvider"
    /\ \E result \in ProviderResponses :
          LET step == ExecuteFromFetch(inputs, targetBlocks, result)
          IN  /\ response' = result
              /\ rpc' = step.rpc
              /\ output' = step.output
              /\ error' = step.error
    /\ UNCHANGED <<context, inputs, targetBlocks, fetchCalls, request>>

(***************************************************************************)
(* Two executions of the one handler instance, interleaved at the provider *)
(* call. Every call of execute has its arguments (inputs, context) and its *)
(* own activation frame with the local targetBlocks; the handler instance  *)
(* has the field pathTracker only, which execute does not use.             *)
(***************************************************************************)
RunIds == {"run1", "run2"}

\* The workflows of the runs: the router with two enabled targets and with
\* connections to the first, to the second, to both or to none of them.
RunContexts ==
    { [ workflow |-> [ version |-> "1.0",
                       blocks |-> << RouterBlock, WorkflowBlock(<<"b">>, TRUE),
                                     WorkflowBlock(<<"c">>, TRUE) >>,
                       connections |-> connections, loops |-> NoLoops ],
        workflowId |-> workflowId,
        blockStates |-> blockStates ] :
      connections \in { <<>>,
                        <<[source |-> RouterBlock.id, target |-> <<"b">>]>>,
                        <<[source |-> RouterBlock.id, target |-> <<"c">>]>>,
                        <<[source |-> RouterBlock.id, target |-> <<"b">>],
                          [source |-> RouterBlock.id, target |-> <<"c">>]>> },
      workflowId \in {"wf-1"},
      blockStates \in { <<>>, (<<"b">> :> [output |-> Str("earlier answer")]) } }

RunInputs ==
    { [ prompt |-> prompt, model |-> JsUndef, apiKey |-> Str("key"),
        temperature |-> JsUndef ] :
      prompt \in {Str(""), Str("Route billing questions to b")} }

RunResponses ==
    { [ ok |-> TRUE, content |-> content, model |-> Str("gpt-4o"),
        tokens |-> [prompt |-> 7, completion |-> 1, total |-> 8] ] :
        content \in { <<"b">>, <<"C", " ">> } }
    \cup
    { [ ok |-> FALSE, status |-> <<"5", "0", "0">>, json |-> TRUE,
        body |-> [error |-> Str("rate limited")] ] }

NoFrame == [targetBlocks |-> <<>>]

\* runs: for every call of execute, where it stands, its arguments, the
\* provider's response and how it ended. frames: the local variables of the
\* calls that live across the await.
VARIABLES runs, frames

runVars == <<runs, frames>>

\* A mutation of the activation frame: the candidate list is kept in a field
\* of the handler instance, which all calls share.
HandlerField(run) == "run1"

\* The frame that holds the locals of a call of execute: its own.
FrameOf(run) == run

RunsInit ==
    /\ runs \in [ RunIds -> { [ rpc |-> "ready", context |-> ctx, inputs |-> args,
                                fetchCalls |-> 0, request |-> NoRequest,
                                response |-> NoResponse, output |-> NoOutput,
                                error |-> NoError ] :
                              ctx \in RunContexts, args \in RunInputs } ]
    /\ frames = [ run \in RunIds |-> NoFrame ]

\* No interleaved executions take part in the other behaviours.
RunsIdle ==
    /\ runs = [ run \in RunIds |->
                  [ rpc |-> "idle",
                    context |-> [ workflow |-> [ version |-> "1.0", blocks |-> <<>>,
                                                 connections |-> <<>>,
                                                 loops |-> NoLoops ],
                                  workflowId |-> "", blockStates |-> <<>> ],
                    inputs |-> [ prompt |-> JsUndef, model |-> JsUndef,
                                 apiKey |-> JsUndef, temperature |-> JsUndef ],
                    fetchCalls |-> 0, request |-> NoRequest,
                    response |-> NoResponse, output |-> NoOutput,
                    error |-> NoError ] ]
    /\ frames = [ run \in RunIds |-> NoFrame ]

\* A call of execute runs up to its provider call.
RunExecute(run) ==
    /\ runs[run].rpc = "ready"
    /\ LET step == ExecuteToFetch(RouterBlock, runs[run].inputs, runs[run].context)
       IN  /\ runs' = [ runs EXCEPT
                          ![run].rpc = step.rpc,
                          ![run].request = step.request,
                          ![run].error = step.error,
                          ![run].fetchCalls =
                              IF step.rpc = "awaitingProvider" THEN @ + 1 ELSE @ ]
           /\ frames' = [ frames EXCEPT
                            ![FrameOf(run)].targetBlocks = step.targetBlocks ]

\* A call of execute is resumed with the response to its provider call.
RunProviderResponds(run) ==
    /\ runs[run].rpc = "awaitingProvider"
    /\ \E result \in RunResponses :
          LET step == ExecuteFromFetch(runs[run].inputs,
                                       frames[FrameOf(run)].targetBlocks, result)
          IN  runs' = [ runs EXCEPT
                          ![run].response = result,
                          ![run].rpc = step.rpc,
                          ![run].output = step.output,
                          ![run].error = step.error ]
    /\ UNCHANGED frames

(***************************************************************************)
(* Dynamics 365 API route: the error helpers, getDynamics365Token,         *)
(* validateDynamics365Response and the POST and GET handlers. A JSON       *)
(* object is a function from its keys to values, read with Get. Dates are  *)
(* milliseconds.                                                           *)
(***************************************************************************)
Date(ms) == [t |-> "date", ms |-> ms]

\* A message built by the template `Dynamics 365 API error: ${status}
\* ${statusText}`.
StatusMessage(res) ==
    [ t |-> "string", s |-> "Dynamics 365 API error:",
      status |-> res.status, statusText |-> res.statusText ]

\* new Dynamics365Error(message, code, statusCode, details)
Dynamics365Error(message, code, statusCode, details) ==
    [ name |-> "Dynamics365Error", message |-> message, code |-> code,
      statusCode |-> statusCode, details |-> details ]

\* new Error(message), TypeError and SyntaxError included.
Error(name, message) == [name |-> name, message |-> message]

\* JSON.parse on the texts of the model: response bodies and request bodies.
ParseJsonText(text) ==
    CASE text = "{\"error\":{\"code\":\"0x80040217\",\"message\":\"API Error\"}}" ->
           Ok(Obj("error" :> Obj(("code" :> Str("0x80040217"))
                                 @@ ("message" :> Str("API Error")))))
      [] text = "{\"error\":{\"innererror\":{\"message\":\"Inner error\"}}}" ->
           Ok(Obj("error" :> Obj("innererror" :> Obj("message" :> Str("Inner error")))))
      [] text = "{}" -> Ok(Obj(<<>>))
      [] text = "null" -> Ok(JsNull)
      [] text = "{\"value\":[]}" -> Ok(Obj("value" :> Arr(<<>>)))
      [] text = "{\"endpoint\":\"/accounts\"}" ->
           Ok(Obj("endpoint" :> Str("/accounts")))
      [] text = "{\"endpoint\":\"\"}" -> Ok(Obj("endpoint" :> Str("")))
      [] text = "{\"endpoint\":\"/accounts\",\"method\":\"POST\",\"data\":{\"name\":\"New Account\"}}" ->
           Ok(Obj(("endpoint" :> Str("/accounts")) @@ ("method" :> Str("POST"))
                  @@ ("data" :> Obj("name" :> Str("New Account")))))
      [] OTHER -> Throw(Error("SyntaxError", Str("Unexpected token")))

\* value.key of a parsed JSON value: a property of null or undefined throws
\* a TypeError, a missing property is undefined.
Prop(value, key) ==
    IF Nullish(value) THEN Throw(Error("TypeError", Str("Cannot read properties")))
    ELSE IF value.t = "object" THEN Ok(Get(value.fields, key))
    ELSE Ok(JsUndef)

\* parseDynamics365Error: the message of the parsed body, of its inner error
\* or of the status; a body that does not parse (or parses to null, whose
\* property read throws) gives the raw text, or the status when it is empty.
ParseDynamics365Error(res, errorText) ==
    LET parsed == ParseJsonText(errorText)
    IN  IF ~parsed.ok \/ ~Prop(parsed.val, "error").ok
        THEN Dynamics365Error(IF errorText # "" THEN Str(errorText)
                              ELSE StatusMessage(res),
                              JsUndef, res.status, [raw |-> Str(errorText)])
        ELSE LET errorData == parsed.val
                 found == Prop(errorData, "error").val
                 errorObject == IF Truthy(found) THEN found ELSE Obj(<<>>)
                 own == Prop(errorObject, "message").val
                 innererror == Prop(errorObject, "innererror").val
                 inner == IF Nullish(innererror) THEN JsUndef
                          ELSE Prop(innererror, "message").val
                 message == IF Truthy(own) THEN own
                            ELSE IF Truthy(inner) THEN inner
                            ELSE StatusMessage(res)
             IN  Dynamics365Error(message, Prop(errorObject, "code").val, res.status,
                                  [ details |-> Prop(errorObject, "details").val,
                                    innerError |-> innererror,
                                    raw |-> errorData ])

\* validateDynamics365Response: a response that is not ok throws its parsed
\* error; an ok response gives response.json(), which rejects when the body
\* is not JSON.
ValidateDynamics365Response(res) ==
    IF ~res.ok
    THEN Throw(ParseDynamics365Error(res, res.body))
    ELSE ParseJsonText(res.body)

\* 5 * 60 * 1000: the margin before the expiry in which a token is refreshed.
RefreshMargin == 5 * 60 * 1000

\* A mutation of the expiry test: the margin is left out, so a token counts
\* as valid until its expiry.
IsExpiredWithoutMargin(credential, now) ==
    /\ credential.accessTokenExpiresAt # JsNull
    /\ credential.accessTokenExpiresAt.ms <= now

\* isExpired: the token has an expiry, and it is at or before now + 5
\* minutes.
IsExpired(credential, now) ==
    /\ credential.accessTokenExpiresAt # JsNull
    /\ credential.accessTokenExpiresAt.ms <= now + RefreshMargin

\* The rows of the select: the accounts of the user at the provider
\* dynamics365, at most one.
SelectCredentials(rows, userId) ==
    LET found == SelectSeq(rows, LAMBDA row : row.userId = userId
                                              /\ row.providerId = "dynamics365")
    IN  IF Len(found) > 1 THEN SubSeq(found, 1, 1) ELSE found

\* A mutation of the session test: any session passes.
HasSession(session) == session # JsNull

\* session?.user?.id, undefined when the session or its user is missing.
SessionUserId(session) ==
    IF session = JsNull THEN JsUndef
    ELSE IF session.user = JsNull THEN JsUndef
    ELSE session.user.id

\* !session?.user?.id is false
HasSessionUser(session) == Truthy(SessionUserId(session))

\* The Authorization header of the outbound request.
Bearer(accessToken) == [scheme |-> "Bearer", token |-> accessToken]

\* NextResponse.json(body, { status })
JsonResponse(body, status) == [status |-> status, body |-> body]

\* The response of the catch of the handlers: the message, code and details
\* of a Dynamics365Error with its status code or 500, else the message of
\* the error with 500.
ErrorResponse(err) ==
    IF err.name = "Dynamics365Error"
    THEN JsonResponse([ error |-> err.message, code |-> err.code,
                        details |-> err.details ],
                      IF err.statusCode # 0 THEN err.statusCode ELSE 500)
    ELSE JsonResponse([error |-> err.message], 500)

(***************************************************************************)
(* Inputs of the Dynamics 365 route.                                       *)
(***************************************************************************)
\* new Date() at the time of the request, and an hour, in milliseconds.
RequestTime == 2 * 3600 * 1000

Hour == 3600 * 1000

Sessions ==
    { JsNull, [user |-> JsNull], [user |-> [id |-> Str("")]],
      [user |-> [id |-> Str("user-1")]] }

\* The requests: GET with its endpoint query parameter (null when it is not
\* given), POST with its body text.
HttpRequests ==
    { [ method |-> "GET", session |-> session, endpoint |-> endpoint, body |-> "" ] :
        session \in Sessions, endpoint \in {JsNull, Str(""), Str("/accounts")} }
    \cup
    { [ method |-> "POST", session |-> session, endpoint |-> JsNull, body |-> body ] :
        session \in Sessions,
        body \in { "", "null", "{}", "{\"endpoint\":\"\"}", "{\"endpoint\":\"/accounts\"}",
                   "{\"endpoint\":\"/accounts\",\"method\":\"POST\",\"data\":{\"name\":\"New Account\"}}" } }

AccountRow(id, userId, providerId, accessToken, refreshToken, accessTokenExpiresAt) ==
    [ id |-> id, userId |-> userId, providerId |-> providerId,
      accessToken |-> accessToken, refreshToken |-> refreshToken,
      accessTokenExpiresAt |-> accessTokenExpiresAt ]

\* The account of the user at another provider, which every table holds.
GoogleRow ==
    AccountRow("acc-google", Str("user-1"), "google", Str("google-token"),
               Str("google-refresh"), Date(RequestTime + Hour))

\* The account tables: no Dynamics 365 account, the account of another user,
\* an account without access token, and accounts with an access token, with
\* and without refresh token, that never expires, has expired, expires at
\* the margin, right after it, or in an hour.
AccountTables ==
    { <<GoogleRow>>,
      <<GoogleRow, AccountRow("acc-other", Str("user-2"), "dynamics365",
                              Str("other-token"), JsNull, JsNull)>>,
      <<GoogleRow, AccountRow("acc-d365", Str("user-1"), "dynamics365",
                              JsNull, Str("stored-refresh"), JsNull)>> }
    \cup
    { <<GoogleRow, AccountRow("acc-d365", Str("user-1"), "dynamics365",
                              Str("stored-token"), refreshToken, expiresAt)>> :
        refreshToken \in {JsNull, Str("stored-refresh")},
        expiresAt \in { JsNull, Date(RequestTime - Hour),
                        Date(RequestTime + RefreshMargin),
                        Date(RequestTime + RefreshMargin + 1),
                        Date(RequestTime + Hour) } }

\* What refreshOAuthToken resolves to: null, or new tokens with or without a
\* new refresh token.
RefreshResults ==
    { JsNull,
      [ accessToken |-> Str("new-token"), refreshToken |-> Str("new-refresh"),
        expiresIn |-> 3600 ],
      [ accessToken |-> Str("new-token"), refreshToken |-> JsUndef,
        expiresIn |-> 3600 ] }

\* The responses of the Dynamics 365 API to the outbound request.
Dynamics365Responses ==
    { [ ok |-> TRUE, status |-> 200, statusText |-> "OK", body |-> body ] :
        body \in {"{\"value\":[]}", "<html>"} }
    \cup
    { [ ok |-> FALSE, status |-> 404, statusText |-> "Not Found", body |-> body ] :
        body \in { "{\"error\":{\"code\":\"0x80040217\",\"message\":\"API Error\"}}",
                   "{\"error\":{\"innererror\":{\"message\":\"Inner error\"}}}",
                   "{}", "null", "Plain text error", "" } }

NoTokenCall ==
    [ userId |-> JsUndef, selected |-> FALSE, credential |-> JsNull,
      refreshCalls |-> <<>>,
      refreshResult |-> JsNull, updates |-> 0, done |-> FALSE, result |-> JsNull ]

NoValidation == [res |-> JsNull, outcome |-> Throw(Error("", Str("")))]

NoHttpResponse == JsonResponse(JsNull, 0)

(***************************************************************************)
(* State of one request to the Dynamics 365 route: where the handler       *)
(* stands, the request, the account table of the database, the call of     *)
(* getDynamics365Token (the credential it selected, its calls of           *)
(* refreshOAuthToken, its updates of the table, its result), the outbound  *)
(* requests to Dynamics 365, the result of validateDynamics365Response and *)
(* the response of the route.                                              *)
(***************************************************************************)
VARIABLES dpc, httpRequest, account, tokenCall, outbound, validation, httpResponse

dynVars == <<dpc, httpRequest, account, tokenCall, outbound, validation, httpResponse>>

DynamicsInit ==
    /\ dpc = "received"
    /\ httpRequest \in HttpRequests
    /\ account \in AccountTables
    /\ tokenCall = NoTokenCall
    /\ outbound = <<>>
    /\ validation = NoValidation
    /\ httpResponse = NoHttpResponse

\* No request to the route takes part in the other behaviours.
DynamicsIdle ==
    /\ dpc = "idle"
    /\ httpRequest = [ method |-> "GET", session |-> JsNull, endpoint |-> JsNull,
                       body |-> "" ]
    /\ account = <<>>
    /\ tokenCall = NoTokenCall
    /\ outbound = <<>>
    /\ validation = NoValidation
    /\ httpResponse = NoHttpResponse

\* POST and GET, from the start to the call of getDynamics365Token: a
\* request without the id of a session user is answered with 401.
RouteStart ==
    /\ dpc = "received"
    /\ IF ~HasSessionUser(httpRequest.session)
       THEN /\ httpResponse' = JsonResponse([error |-> Str("Unauthorized")], 401)
            /\ dpc' = "responded"
            /\ UNCHANGED tokenCall
       ELSE /\ tokenCall' = [tokenCall EXCEPT !.userId = SessionUserId(httpRequest.session)]
            /\ dpc' = "selecting"
            /\ UNCHANGED httpResponse
    /\ UNCHANGED <<httpRequest, account, outbound, validation>>

\* getDynamics365Token, from the select to the call of refreshOAuthToken:
\* null without credential or access token, the stored token when it is not
\* expired, null without refresh token; a select that rejects gives null.
GetDynamics365Token ==
    /\ dpc = "selecting"
    /\ \E selectFails \in BOOLEAN :
          LET credentials == SelectCredentials(account, tokenCall.userId)
              credential == credentials[1]
          IN  IF selectFails
              THEN /\ tokenCall' = [tokenCall EXCEPT !.done = TRUE, !.result = JsNull]
                   /\ dpc' = "tokenReturned"
              ELSE IF Len(credentials) = 0 \/ ~Truthy(credentials[1].accessToken)
              THEN /\ tokenCall' = [tokenCall EXCEPT !.selected = TRUE, !.done = TRUE,
                                                      !.result = JsNull]
                   /\ dpc' = "tokenReturned"
              ELSE IF ~IsExpired(credential, RequestTime)
              THEN /\ tokenCall' = [tokenCall EXCEPT !.selected = TRUE,
                                                      !.credential = credential,
                                                      !.done = TRUE,
                                                      !.result = credential.accessToken]
                   /\ dpc' = "tokenReturned"
              ELSE IF ~Truthy(credential.refreshToken)
              THEN /\ tokenCall' = [tokenCall EXCEPT !.selected = TRUE,
                                                      !.credential = credential,
                                                      !.done = TRUE,
                                                      !.result = JsNull]
                   /\ dpc' = "tokenReturned"
              ELSE /\ tokenCall' =
                         [tokenCall EXCEPT
                            !.selected = TRUE,
                            !.credential = credential,
                            !.refreshCalls =
                                Append(@, <<"dynamics365", credential.refreshToken>>)]
                   /\ dpc' = "refreshing"
    /\ UNCHANGED <<httpRequest, account, outbound, validation, httpResponse>>

\* getDynamics365Token, resumed with the result of refreshOAuthToken: null
\* when there is none or the call rejects, else on to the update.
RefreshOAuthTokenReturns ==
    /\ dpc = "refreshing"
    /\ \E refreshRejects \in BOOLEAN, refreshResult \in RefreshResults :
          IF refreshRejects \/ refreshResult = JsNull
          THEN /\ tokenCall' = [tokenCall EXCEPT !.done = TRUE, !.result = JsNull]
               /\ dpc' = "tokenReturned"
          ELSE /\ tokenCall' = [tokenCall EXCEPT !.refreshResult = refreshResult]
               /\ dpc' = "updating"
    /\ UNCHANGED <<httpRequest, account, outbound, validation, httpResponse>>

\* getDynamics365Token, the update of the account row with the new tokens:
\* the new access token once the row is written, null when the update
\* rejects.
UpdateAccountRow ==
    /\ dpc = "updating"
    /\ \E updateRejects \in BOOLEAN :
          LET credential == tokenCall.credential
              refreshResult == tokenCall.refreshResult
          IN  IF updateRejects
              THEN /\ tokenCall' = [tokenCall EXCEPT !.done = TRUE, !.result = JsNull]
                   /\ UNCHANGED account
              ELSE /\ account' =
                         [ i \in 1..Len(account) |->
                             IF account[i].id = credential.id
                             THEN [ account[i] EXCEPT
                                      !.accessToken = refreshResult.accessToken,
                                      !.accessTokenExpiresAt =
                                          Date(RequestTime + refreshResult.expiresIn * 1000),
                                      !.refreshToken =
                                          IF Truthy(refreshResult.refreshToken)
                                          THEN refreshResult.refreshToken
                                          ELSE credential.refreshToken ]
                             ELSE account[i] ]
                   /\ tokenCall' = [tokenCall EXCEPT !.updates = @ + 1,
                                                      !.done = TRUE,
                                                      !.result = refreshResult.accessToken]
    /\ dpc' = "tokenReturned"
    /\ UNCHANGED <<httpRequest, outbound, validation, httpResponse>>

\* The endpoint, method and data of the request: POST reads them of the
\* parsed body (a body that is not JSON, or is null, throws), GET has the
\* endpoint query parameter only.
RequestFields(req) ==
    IF req.method = "GET"
    THEN Ok([endpoint |-> req.endpoint, method |-> JsUndef, data |-> JsUndef])
    ELSE LET body == ParseJsonText(req.body)
         IN  IF ~body.ok THEN body
             ELSE IF ~Prop(body.val, "endpoint").ok THEN Prop(body.val, "endpoint")
             ELSE Ok([ endpoint |-> Prop(body.val, "endpoint").val,
                       method |-> IF Prop(body.val, "method").val = JsUndef
                                  THEN Str("GET") ELSE Prop(body.val, "method").val,
                       data |-> Prop(body.val, "data").val ])

\* POST and GET, resumed with the token, up to the outbound fetch: 401
\* without token, 400 without endpoint, and else the request to Dynamics 365
\* with the token as Bearer authorization.
RouteWithToken ==
    /\ dpc = "tokenReturned"
    /\ LET accessToken == tokenCall.result
           fields == RequestFields(httpRequest)
       IN  IF ~Truthy(accessToken)
           THEN /\ httpResponse' = JsonResponse(
                        [error |-> Str("No valid Dynamics 365 credentials found")], 401)
                /\ dpc' = "responded"
                /\ UNCHANGED outbound
           ELSE IF ~fields.ok
           THEN /\ httpResponse' = ErrorResponse(fields.err)
                /\ dpc' = "responded"
                /\ UNCHANGED outbound
           ELSE IF ~Truthy(fields.val.endpoint)
           THEN /\ httpResponse' = JsonResponse([error |-> Str("Endpoint is required")], 400)
                /\ dpc' = "responded"
                /\ UNCHANGED outbound
           ELSE /\ outbound' = Append(outbound,
                                      [ endpoint |-> fields.val.endpoint,
                                        method |-> fields.val.method,
                                        authorization |-> Bearer(accessToken),
                                        body |-> IF Truthy(fields.val.data)
                                                 THEN fields.val.data ELSE JsUndef ])
                /\ dpc' = "fetching"
                /\ UNCHANGED httpResponse
    /\ UNCHANGED <<httpRequest, account, tokenCall, validation>>

\* POST and GET, resumed with the outcome of the fetch: the validated data
\* of the response, or the response of the catch for a fetch that rejects or
\* a validation that throws.
RouteResponds ==
    /\ dpc = "fetching"
    /\ \/ /\ httpResponse' = ErrorResponse(Error("TypeError", Str("fetch failed")))
          /\ UNCHANGED validation
       \/ \E res \in Dynamics365Responses :
             LET responseData == ValidateDynamics365Response(res)
             IN  /\ validation' = [res |-> res, outcome |-> responseData]
                 /\ httpResponse' = IF responseData.ok
                                    THEN JsonResponse(responseData.val, 200)
                                    ELSE ErrorResponse(responseData.err)
    /\ dpc' = "responded"
    /\ UNCHANGED <<httpRequest, account, tokenCall, outbound>>

(***************************************************************************)
(* The default-value loop of extractParams on a definition whose           *)
(* default-value functions record their argument: the sub-fields of the    *)
(* definition in declaration order, some with a default-value function,    *)
(* and a block that has each sub-field with null, with a value, or not at  *)
(* all.                                                                    *)
(***************************************************************************)
RecorderFields == <<"first", "second", "third">>

RecorderSubBlocks ==
    { [i \in DOMAIN RecorderFields |->
          SubBlockConfig(RecorderFields[i], "short-input", hasValue[i])] :
      hasValue \in [DOMAIN RecorderFields -> BOOLEAN] }

\* The values of the block's sub-fields by position; undefined stands for a
\* sub-field that the block does not have.
RecorderValues == [DOMAIN RecorderFields -> {JsUndef, JsNull, Str("x")}]

\* The first loop of extractParams: the value of every sub-field of the block.
CollectedParams(values) ==
    [ id \in {RecorderFields[i] : i \in {j \in DOMAIN RecorderFields : values[j] # JsUndef}} |->
        values[CHOOSE i \in DOMAIN RecorderFields : RecorderFields[i] = id] ]

VARIABLES defConfigs, defCollected, defParams, defIndex, defCalls

defVars == <<defConfigs, defCollected, defParams, defIndex, defCalls>>

\* extractParams after its first loop: params holds the current values, the
\* default-value loop stands before the first declared sub-field.
DefaultsInit ==
    /\ defConfigs \in RecorderSubBlocks
    /\ \E values \in RecorderValues : defCollected = CollectedParams(values)
    /\ defParams = defCollected
    /\ defIndex = 1
    /\ defCalls = <<>>

DefaultsIdle ==
    /\ defConfigs = <<>>
    /\ defCollected = <<>>
    /\ defParams = <<>>
    /\ defIndex = 0
    /\ defCalls = <<>>

\* One iteration of blockConfig.subBlocks.forEach: defCalls gets the id of
\* the sub-field when its default-value function is called.
ResolveDefault ==
    /\ defIndex \in 1..Len(defConfigs)
    /\ LET subBlockConfig == defConfigs[defIndex]
       IN  /\ defParams' = ApplyDefault("recorder", subBlockConfig, defParams)
           /\ defCalls' = IF NeedsDefault(subBlockConfig, defParams)
                          THEN Append(defCalls, subBlockConfig.id)
                          ELSE defCalls
    /\ defIndex' = defIndex + 1
    /\ UNCHANGED <<defConfigs, defCollected>>

(***************************************************************************)
(* The tool binding of the Dynamics 365 block and the dynamics365_sales    *)
(* tool: tools.config.tool and tools.config.params of the block, and       *)
(* request.url of the tool on the params that the block built.             *)
(***************************************************************************)
ValidSalesOperations ==
    {Str("sales_summary"), Str("payment_status"), Str("pipeline_status")}

\* The keys of params that Dynamics365Block.tools.config.params takes out
\* by destructuring; rest holds the others.
Destructured ==
    {"credential", "operation", "leadOperation", "salesOperation", "organizationUrl"}

\* ...(value && {key: value}) in an object literal
Optional(key, value) == IF Truthy(value) THEN (key :> value) ELSE <<>>

\* Dynamics365Block.tools.config.params
Dynamics365Params(params) ==
    LET credential == Get(params, "credential")
        operation == Get(params, "operation")
        leadOperation == Get(params, "leadOperation")
        salesOperation == Get(params, "salesOperation")
        organizationUrl == Get(params, "organizationUrl")
        rest == [key \in DOMAIN params \ Destructured |-> params[key]]
        cleanParams == [key \in {k \in DOMAIN rest : ~Nullish(rest[k])} |-> rest[key]]
        base == ("accessToken" :> credential) @@ ("organizationUrl" :> organizationUrl)
    IN  IF ~Truthy(organizationUrl) THEN Throw("Organization URL is required")
        ELSE IF ~Truthy(credential) THEN Throw("Credentials are required")
        ELSE IF operation = Str("leads")
        THEN IF ~Truthy(leadOperation)
             THEN Throw("Lead operation is required when operation is \"leads\"")
             ELSE Ok(rest @@ base @@ ("operation" :> leadOperation) @@
                     ("entityType" :> Str("leads")))
        ELSE IF operation = Str("sales")
        THEN IF ~Truthy(salesOperation)
             THEN Throw("Sales operation is required when operation is \"sales\"")
             ELSE IF salesOperation \notin ValidSalesOperations
             THEN Throw("Invalid sales operation")
             ELSE Ok(base @@ ("operation" :> salesOperation) @@
                     Optional("startDate", Get(rest, "startDate")) @@
                     Optional("endDate", Get(rest, "endDate")) @@
                     Optional("salesPersonId", Get(rest, "salesPersonId")))
        ELSE Ok(cleanParams @@ base)

\* The dates of the model that validateDate accepts.
ValidDates == {Str("2024-01-01")}

\* The entity that request.url of the sales tool queries for an operation.
SalesEntity(salesOperation) ==
    IF salesOperation = Str("payment_status") THEN "invoices" ELSE "opportunities"

\* dynamics365SalesTool.request.url: the URL as its organization, entity and
\* the params that its filters are made of.
SalesRequestUrl(params) ==
    LET salesOperation == Get(params, "salesOperation")
        startDate == Get(params, "startDate")
        endDate == Get(params, "endDate")
    IN  IF ~Truthy(Get(params, "organizationUrl"))
        THEN Throw("Organization URL is required")
        ELSE IF ~Truthy(Get(params, "accessToken"))
        THEN Throw("Access token is required")
        ELSE IF salesOperation \notin ValidSalesOperations
        THEN Throw("Invalid operation")
        ELSE IF Truthy(startDate) /\ startDate \notin ValidDates
        THEN Throw("Invalid start date")
        ELSE IF Truthy(endDate) /\ endDate \notin ValidDates
        THEN Throw("Invalid end date")
        ELSE Ok([ organizationUrl |-> Get(params, "organizationUrl"),
                  entity |-> SalesEntity(salesOperation),
                  filters |-> Optional("startDate", startDate) @@
                              Optional("endDate", endDate) @@
                              Optional("salesPersonId", Get(params, "salesPersonId")) ])

\* The params of a Dynamics 365 block as extractParams collects them.
BlockParams ==
    { ("operation" :> operation) @@ ("salesOperation" :> salesOperation) @@
      ("leadOperation" :> leadOperation) @@ ("credential" :> credential) @@
      ("organizationUrl" :> organizationUrl) @@ ("startDate" :> startDate) @@
      ("entityType" :> JsNull) :
      operation \in {Str("create"), Str("retrieve"), Str("update"), Str("delete"),
                     Str("leads"), Str("sales"), JsNull},
      salesOperation \in ValidSalesOperations \cup {JsNull, Str("refunds")},
      leadOperation \in {JsNull, Str("get_all")},
      credential \in {JsNull, Str("token")},
      organizationUrl \in {JsNull, Str("https://org.crm.dynamics.com")},
      startDate \in {JsNull, Str("2024-01-01"), Str("yesterday")} }

NoToolResult == [ok |-> FALSE, err |-> "none"]

VARIABLES toolPc, givenParams, resolvedTool, builtParams, salesRequest

toolVars == <<toolPc, givenParams, resolvedTool, builtParams, salesRequest>>

ToolInit ==
    /\ toolPc = "block"
    /\ givenParams \in BlockParams
    /\ resolvedTool = NoToolResult
    /\ builtParams = NoToolResult
    /\ salesRequest = NoToolResult

ToolIdle ==
    /\ toolPc = "idle"
    /\ givenParams = <<>>
    /\ resolvedTool = NoToolResult
    /\ builtParams = NoToolResult
    /\ salesRequest = NoToolResult

\* blockConfig.tools.config.tool(params)
ResolveTool ==
    /\ toolPc = "block"
    /\ resolvedTool' = Dynamics365Tool(givenParams)
    /\ toolPc' = "resolved"
    /\ UNCHANGED <<givenParams, builtParams, salesRequest>>

\* blockConfig.tools.config.params(params) for the block whose tool resolved.
BuildToolParams ==
    /\ toolPc = "resolved"
    /\ resolvedTool.ok
    /\ builtParams' = Dynamics365Params(givenParams)
    /\ toolPc' = "built"
    /\ UNCHANGED <<givenParams, resolvedTool, salesRequest>>

\* request.url of the dynamics365_sales tool on the params of the block.
BuildSalesRequest ==
    /\ toolPc = "built"
    /\ builtParams.ok
    /\ resolvedTool.val = "dynamics365_sales"
    /\ salesRequest' = SalesRequestUrl(builtParams.val)
    /\ toolPc' = "requested"
    /\ UNCHANGED <<givenParams, resolvedTool, builtParams>>

(***************************************************************************)
(* Specifications.                                                         *)
(***************************************************************************)
vars == <<serVars, routerVars, runVars, dynVars, defVars, toolVars>>

SerInitial == SerInit /\ RouterIdle /\ RunsIdle /\ DynamicsIdle /\ DefaultsIdle /\ ToolIdle

SerNext ==
    \/ Serialize /\ UNCHANGED <<routerVars, runVars, dynVars, defVars, toolVars>>
    \/ Deserialize /\ UNCHANGED <<routerVars, runVars, dynVars, defVars, toolVars>>
    \/ SerializeAgain /\ UNCHANGED <<routerVars, runVars, dynVars, defVars, toolVars>>

SerializerSpec == SerInitial /\ [][SerNext]_vars

RouterInitial == RouterInit /\ SerializerIdle /\ RunsIdle /\ DynamicsIdle /\ DefaultsIdle /\ ToolIdle

RouterNext ==
    \/ Execute /\ UNCHANGED <<serVars, runVars, dynVars, defVars, toolVars>>
    \/ ProviderResponds /\ UNCHANGED <<serVars, runVars, dynVars, defVars, toolVars>>

RouterSpec == RouterInitial /\ [][RouterNext]_vars

RunsInitial == RunsInit /\ SerializerIdle /\ RouterIdle /\ DynamicsIdle /\ DefaultsIdle /\ ToolIdle

RunsNext ==
    \E run \in RunIds :
        \/ RunExecute(run) /\ UNCHANGED <<serVars, routerVars, dynVars, defVars, toolVars>>
        \/ RunProviderResponds(run) /\ UNCHANGED <<serVars, routerVars, dynVars, defVars, toolVars>>

InterleavedRunsSpec == RunsInitial /\ [][RunsNext]_vars

DynamicsInitial == DynamicsInit /\ SerializerIdle /\ RouterIdle /\ RunsIdle /\ DefaultsIdle /\ ToolIdle

DynamicsNext ==
    \/ RouteStart /\ UNCHANGED <<serVars, routerVars, runVars, defVars, toolVars>>
    \/ GetDynamics365Token /\ UNCHANGED <<serVars, routerVars, runVars, defVars, toolVars>>
    \/ RefreshOAuthTokenReturns /\ UNCHANGED <<serVars, routerVars, runVars, defVars, toolVars>>
    \/ UpdateAccountRow /\ UNCHANGED <<serVars, routerVars, runVars, defVars, toolVars>>
    \/ RouteWithToken /\ UNCHANGED <<serVars, routerVars, runVars, defVars, toolVars>>
    \/ RouteResponds /\ UNCHANGED <<serVars, routerVars, runVars, defVars, toolVars>>

Dynamics365Spec == DynamicsInitial /\ [][DynamicsNext]_vars

DefaultsInitial ==
    DefaultsInit /\ SerializerIdle /\ RouterIdle /\ RunsIdle /\ DynamicsIdle /\ ToolIdle

DefaultsNext ==
    ResolveDefault /\ UNCHANGED <<serVars, routerVars, runVars, dynVars, toolVars>>

DefaultsSpec == DefaultsInitial /\ [][DefaultsNext]_vars

ToolInitial ==
    ToolInit /\ SerializerIdle /\ RouterIdle /\ RunsIdle /\ DynamicsIdle /\ DefaultsIdle

ToolNext ==
    \/ ResolveTool /\ UNCHANGED <<serVars, routerVars, runVars, dynVars, defVars>>
    \/ BuildToolParams /\ UNCHANGED <<serVars, routerVars, runVars, dynVars, defVars>>
    \/ BuildSalesRequest /\ UNCHANGED <<serVars, routerVars, runVars, dynVars, defVars>>

Dynamics365ToolSpec == ToolInitial /\ [][ToolNext]_vars

(***************************************************************************)
(* Properties of the router handler.                                       *)
(***************************************************************************)
ExecuteStarted == rpc \in {"awaitingProvider", "returned", "threw"}

RouterConnections ==
    {c \in Range(context.workflow.connections) : c.source = RouterBlock.id}

\* C7: router without connections. When no connection of the workflow has
\* the router as its source, execute has thrown the error 'has no outgoing
\* connections' and no provider call was made, whatever the prompt is.
NoConnectionsFailsBeforeFetch ==
    (ExecuteStarted /\ RouterConnections = {}) =>
        /\ rpc = "threw"
        /\ error = RouterError("Router block has no outgoing connections",
                               <<>>, RouterBlock.id)
        /\ fetchCalls = 0
        /\ request = NoRequest

\* C7 witness: a router without outgoing connections and without a prompt has
\* been executed.
NoConnectionsNoPromptExecuted ==
    /\ rpc = "threw"
    /\ RouterConnections = {}
    /\ context.workflow.connections # <<>>
    /\ inputs.prompt = JsUndef

\* The router has one outgoing connection, to an existing enabled block T,
\* the prompt is not empty and the provider has answered with success.
SingleCandidateAnswered(T) ==
    /\ rpc \in {"returned", "threw"}
    /\ response.ok
    /\ Truthy(inputs.prompt)
    /\ Len(SelectSeq(context.workflow.connections,
                     LAMBDA c : c.source = RouterBlock.id)) = 1
    /\ \A c \in RouterConnections : c.target = T
    /\ \E b \in Range(context.workflow.blocks) : b.id = T /\ b.enabled = Bool(TRUE)

\* C8 as stated: with a single enabled target T and a decision text that
\* equals T after trimming when both are compared without regard to case,
\* execute returns a selectedPath whose blockId is T.
SingleCandidateAnyCasing ==
    \A T \in Range(TargetIds) :
        (SingleCandidateAnswered(T)
         /\ ToLowerCase(Trim(response.content)) = ToLowerCase(T)) =>
            /\ rpc = "returned"
            /\ output.response.selectedPath.blockId = T

\* C8 as amended: with a single enabled target T and a decision text that
\* equals T after trimming and lower-casing (only the text is lower-cased,
\* the id is compared as given), execute returns a selectedPath whose blockId
\* is T.
SingleCandidateLowerCasedText ==
    \A T \in Range(TargetIds) :
        (SingleCandidateAnswered(T)
         /\ ToLowerCase(Trim(response.content)) = T) =>
            /\ rpc = "returned"
            /\ output.response.selectedPath.blockId = T

\* C8 witness: the single target b was selected by a decision text in upper
\* case with a blank around it.
UpperCaseTextSelects ==
    /\ SingleCandidateAnswered(<<"b">>)
    /\ response.content \in {<<"B", " ">>, <<" ", "B">>}
    /\ rpc = "returned"
    /\ output.response.selectedPath.blockId = <<"b">>

\* C9: disabled targets. No candidate of the list that execute builds and
\* passes to the prompt builder is a disabled block of the workflow, and the
\* blockId of a returned selectedPath never is one, whatever the decision
\* text names.
DisabledNeverCandidate ==
    LET disabled == {b.id : b \in {x \in Range(context.workflow.blocks) :
                                      x.enabled = Bool(FALSE)}}
    IN  /\ \A t \in Range(targetBlocks) : t.id \notin disabled
        /\ request # NoRequest =>
              \A t \in Range(request.systemPrompt.targetBlocks) : t.id \notin disabled
        /\ rpc = "returned" => output.response.selectedPath.blockId \notin disabled

\* C9 witness: a router with an enabled and a disabled target has been
\* executed, and no candidate list went to the provider.
DisabledTargetExecuted ==
    /\ rpc = "threw"
    /\ \E c \in RouterConnections :
          \E b \in Range(context.workflow.blocks) :
              b.id = c.target /\ b.enabled = Bool(FALSE)
    /\ \E c \in RouterConnections :
          \E b \in Range(context.workflow.blocks) :
              b.id = c.target /\ b.enabled = Bool(TRUE)
    /\ Truthy(inputs.prompt)
    /\ request = NoRequest

\* C10: unmatched decision. When the provider answers with success and the
\* normalised decision text is the id of no candidate, execute throws
\* 'Invalid routing decision' with that normalised text, returns no output
\* and leaves the execution context as it was.
UnmatchedDecisionThrows ==
    [][ ( /\ rpc = "awaitingProvider"
          /\ response'.ok
          /\ \A t \in Range(targetBlocks) :
                t.id # ToLowerCase(Trim(response'.content)) ) =>
        ( /\ rpc' = "threw"
          /\ error' = RouterError("Invalid routing decision",
                                  ToLowerCase(Trim(response'.content)), <<>>)
          /\ output' = NoOutput
          /\ context' = context ) ]_vars

\* C10 witness: execute has thrown for a decision text that names no
\* candidate, with block states in the context.
UnmatchedDecisionThrown ==
    /\ rpc = "threw"
    /\ response.ok
    /\ error.name = "Invalid routing decision"
    /\ error.arg = <<"c">>
    /\ DOMAIN context.blockStates # {}

\* The outgoing connections of the router whose target is not a block of the
\* workflow, is a disabled block, is an enabled block.
MissingTargetConnections ==
    {c \in RouterConnections :
        \A b \in Range(context.workflow.blocks) : b.id # c.target}

DisabledTargetConnections ==
    {c \in RouterConnections :
        \E b \in Range(context.workflow.blocks) :
            b.id = c.target /\ b.enabled = Bool(FALSE)}

EnabledTargetConnections ==
    {c \in RouterConnections :
        \E b \in Range(context.workflow.blocks) :
            b.id = c.target /\ b.enabled = Bool(TRUE)}

TargetErrors ==
    {"Target block not found for router", "Target block is disabled for router"}

\* C11: partly invalid targets. When the router has a connection to an
\* existing enabled target and other connections to missing or disabled
\* targets, execute does not throw a target error: the candidates are exactly
\* the existing enabled targets and, with a prompt, the provider is called.
PartlyInvalidTargetsDropped ==
    ( /\ ExecuteStarted
      /\ EnabledTargetConnections # {}
      /\ MissingTargetConnections \cup DisabledTargetConnections # {} ) =>
        /\ error.name \notin TargetErrors
        /\ {t.id : t \in Range(targetBlocks)} =
              {c.target : c \in EnabledTargetConnections}
        /\ Truthy(inputs.prompt) => fetchCalls = 1

\* C12: pre-execution validation. When a connection of the router names a
\* target that is not a block of the workflow or that is disabled, execute
\* has thrown the configuration error of such a target, naming the target and
\* the router, with no candidate list built and no provider call made.
InvalidTargetAborts ==
    ( /\ ExecuteStarted
      /\ MissingTargetConnections \cup DisabledTargetConnections # {} ) =>
        /\ rpc = "threw"
        /\ error.router = RouterBlock.id
        /\ \/ /\ error.name = "Target block not found for router"
              /\ \E c \in MissingTargetConnections : error.arg = c.target
           \/ /\ error.name = "Target block is disabled for router"
              /\ \E c \in DisabledTargetConnections : error.arg = c.target
        /\ targetBlocks = <<>>
        /\ fetchCalls = 0
        /\ request = NoRequest

\* C12 witness: execute has thrown for a missing target of a router that
\* has an enabled target as well, and a prompt.
MissingTargetThrown ==
    /\ rpc = "threw"
    /\ error.name = "Target block not found for router"
    /\ error.arg = <<"c">>
    /\ EnabledTargetConnections # {}
    /\ Truthy(inputs.prompt)

\* Every check of validateRouterConfiguration passes on the workflow.
RouterConfigurationValid ==
    /\ RouterConnections # {}
    /\ MissingTargetConnections = {}
    /\ DisabledTargetConnections = {}

UpstreamFailureThrowsOnce ==
    /\ fetchCalls <= 1
    /\ (rpc \in {"returned", "threw"} /\ response # NoResponse /\ ~response.ok) =>
          /\ rpc = "threw"
          /\ fetchCalls = 1
          /\ output = NoOutput
          /\ IF response.json /\ response.body.error \notin {JsUndef, Str("")}
             THEN error = RouterError(response.body.error.s, <<>>, <<>>)
             ELSE error = RouterError("Provider API request failed with status",
                                      response.status, <<>>)

\* C14 witness: execute has thrown the error field of the provider's body.
ProviderErrorFieldThrown ==
    /\ rpc = "threw"
    /\ fetchCalls = 1
    /\ response # NoResponse
    /\ ~response.ok
    /\ error.name = "rate limited"

\* The output of a successful execution but for its model name: the prompt
\* as content, every token count of the response or 0, and the id, type and
\* title of the chosen candidate as selectedPath.
SuccessOutputDetails ==
    /\ output.response.content = inputs.prompt
    /\ \A field \in {"prompt", "completion", "total"} :
          output.response.tokens[field] =
              IF response.tokens # JsUndef /\ field \in DOMAIN response.tokens
              THEN response.tokens[field] ELSE 0
    /\ \E i \in 1..Len(targetBlocks) :
          /\ targetBlocks[i].id = ToLowerCase(Trim(response.content))
          /\ \A j \in 1..(i - 1) : targetBlocks[j].id # targetBlocks[i].id
          /\ output.response.selectedPath =
                [ blockId |-> targetBlocks[i].id,
                  blockType |-> targetBlocks[i].type,
                  blockTitle |-> targetBlocks[i].title ]

\* C15 as stated: the output of a successful execution holds the prompt as
\* content, the model name the provider call was made with, the token counts
\* with 0 for every missing one, and the chosen candidate as selectedPath.
SuccessOutputModelOfCall ==
    rpc = "returned" =>
        /\ SuccessOutputDetails
        /\ output.response.model = request.model

\* C15 as amended: the output of a successful execution holds the prompt as
\* content, the model name of the provider's response, the token counts with
\* 0 for every missing one, and the chosen candidate as selectedPath.
SuccessOutputModelOfResponse ==
    rpc = "returned" =>
        /\ SuccessOutputDetails
        /\ output.response.model = response.model

\* C15 witness: execute has returned for a response that reports another
\* model name than the requested one and leaves out the total count.
PartialTokensReturned ==
    /\ rpc = "returned"
    /\ response.model # request.model
    /\ "total" \notin DOMAIN response.tokens
    /\ output.response.tokens = [prompt |-> 7, completion |-> 1, total |-> 0]

\* C16: exactly one viable target. An execution that has ended has thrown an
\* error and has no output, or has returned an output whose selectedPath
\* names an enabled block of the workflow that is the target of a connection
\* of the router, and has no error.
ExactlyOneViableTarget ==
    /\ rpc = "threw" => (output = NoOutput /\ error # NoError)
    /\ rpc = "returned" =>
          /\ error = NoError
          /\ output # NoOutput
          /\ \E c \in EnabledTargetConnections :
                output.response.selectedPath.blockId = c.target
    /\ rpc \in {"ready", "awaitingProvider"} => (output = NoOutput /\ error = NoError)

\* C16 witness: execute has returned the target of the router in a
\* workflow that has a connection of another block as well.
SecondCandidateReturned ==
    /\ rpc = "returned"
    /\ output.response.selectedPath.blockId = <<"c">>
    /\ \E c \in Range(context.workflow.connections) : c.source # RouterBlock.id

\* C27: diagnostic context of an unmatched decision. The error that execute
\* throws when the decision names no candidate carries the decision text as
\* the provider gave it, before trim and toLowerCase, the id of the router
\* block and the ids of the candidates.
UnmatchedDecisionDiagnostics ==
    (rpc = "threw" /\ error.name = "Invalid routing decision") =>
        /\ error.arg = response.content
        /\ error.router = RouterBlock.id
        /\ "candidates" \in DOMAIN error
        /\ error.candidates = [i \in DOMAIN targetBlocks |-> targetBlocks[i].id]

\* C28: validation makes the candidate filter redundant. Execute never
\* throws 'has no valid target blocks'; once validateRouterConfiguration has
\* passed, the candidate list has one entry for every outgoing connection of
\* the router, in connection order (two for two connections to one target),
\* and a returned selectedPath is that of the first entry whose id is the
\* normalised decision text.
ValidatedCandidatesUnfiltered ==
    /\ error.name # "Router block has no valid target blocks"
    /\ (ExecuteStarted /\ ValidateRouterConfiguration(RouterBlock, context).ok) =>
          LET connections == OutgoingConnections(RouterBlock, context)
              matching == {i \in DOMAIN targetBlocks :
                              targetBlocks[i].id = ToLowerCase(Trim(response.content))}
          IN  /\ Len(targetBlocks) = Len(connections)
              /\ \A i \in DOMAIN connections : targetBlocks[i].id = connections[i].target
              /\ rpc = "returned" =>
                    \E first \in matching :
                        /\ \A i \in matching : first <= i
                        /\ output.response.selectedPath.blockId = targetBlocks[first].id
                        /\ output.response.selectedPath.blockType = targetBlocks[first].type
                        /\ output.response.selectedPath.blockTitle = targetBlocks[first].title

\* C28 witness: a router with two connections to the one enabled block b has
\* been executed with the decision b; the candidate list has two entries and
\* execute has returned b.
DuplicateConnectionsReturned ==
    /\ rpc = "returned"
    /\ OutgoingConnections(RouterBlock, context) =
          << [source |-> RouterBlock.id, target |-> <<"b">>],
             [source |-> RouterBlock.id, target |-> <<"b">>] >>
    /\ Len(targetBlocks) = 2
    /\ output.response.selectedPath.blockId = <<"b">>

(***************************************************************************)
(* Properties of interleaved executions.                                   *)
(***************************************************************************)
\* How a call of execute ends when it runs alone on the given arguments and
\* gets the given response to its provider call.
AloneOutcome(args, ctx, result) ==
    LET first == ExecuteToFetch(RouterBlock, args, ctx)
        second == ExecuteFromFetch(args, first.targetBlocks, result)
    IN  IF first.rpc = "threw"
        THEN [rpc |-> "threw", output |-> NoOutput, error |-> first.error]
        ELSE [rpc |-> second.rpc, output |-> second.output, error |-> second.error]

\* C17: independent runs. Of two executions interleaved at the provider
\* call, each ends (with its output or its error) as it ends when it runs
\* alone on its own arguments with the same provider response, whatever the
\* other does meanwhile, and no step changes the context of either run.
IndependentRuns ==
    /\ [](\A run \in RunIds :
             runs[run].rpc \in {"returned", "threw"} =>
                 [ rpc |-> runs[run].rpc, output |-> runs[run].output,
                   error |-> runs[run].error ]
                 = AloneOutcome(runs[run].inputs, runs[run].context,
                                runs[run].response))
    /\ [][\A run \in RunIds :
             /\ runs'[run].context = runs[run].context
             /\ runs'[run].inputs = runs[run].inputs]_vars

\* C17 witness: the first run has returned its target b although the second
\* run, with another workflow, built its candidates while the first was
\* waiting for the provider, and is still waiting itself.
InterleavedRunReturned ==
    /\ runs["run1"].rpc = "returned"
    /\ runs["run1"].output.response.selectedPath.blockId = <<"b">>
    /\ runs["run2"].rpc = "awaitingProvider"
    /\ frames["run2"].targetBlocks # frames["run1"].targetBlocks
    /\ runs["run2"].context # runs["run1"].context

(***************************************************************************)
(* Properties of the Dynamics 365 route.                                   *)
(***************************************************************************)
\* The rows of the account table that hold the Dynamics 365 credential of
\* the user getDynamics365Token was called for.
StoredCredentials ==
    {row \in Range(account) :
        row.userId = tokenCall.userId /\ row.providerId = "dynamics365"}

\* The stored expiry is at or before the request time + 5 minutes.
ExpiresWithinFiveMinutes(row) ==
    /\ row.accessTokenExpiresAt # JsNull
    /\ row.accessTokenExpiresAt.ms <= RequestTime + 300000

ExpiresAfterFiveMinutes(row) ==
    /\ row.accessTokenExpiresAt # JsNull
    /\ row.accessTokenExpiresAt.ms > RequestTime + 300000

ValidateResponseMessages ==
    validation # NoValidation =>
        /\ (~validation.res.ok
            /\ validation.res.body
                  = "{\"error\":{\"code\":\"0x80040217\",\"message\":\"API Error\"}}") =>
              /\ ~validation.outcome.ok
              /\ validation.outcome.err.message = Str("API Error")
        /\ (~validation.res.ok /\ validation.res.body = "Plain text error") =>
              /\ ~validation.outcome.ok
              /\ validation.outcome.err.message = Str("Unknown Dynamics 365 API error")
        /\ (validation.res.ok /\ validation.res.body = "{\"value\":[]}") =>
              /\ validation.outcome.ok
              /\ validation.outcome.val = Obj("value" :> Arr(<<>>))

\* The request has the id of a session user.
RequestHasUser ==
    /\ httpRequest.session # JsNull
    /\ httpRequest.session.user # JsNull
    /\ httpRequest.session.user.id # Str("")

\* The route's checks and their order, for a given reading of 'a request
\* without an endpoint': 401 'Unauthorized' without session user and no
\* token lookup; else 401 'No valid Dynamics 365 credentials found' without
\* token; else 400 'Endpoint is required' without endpoint; an outbound
\* request only when the three checks pass, once, with the token as Bearer
\* authorization; 500 with the message of an outbound error that is not a
\* Dynamics365Error.
RouteGating(withoutEndpoint) ==
    /\ dpc = "responded" =>
          /\ ~RequestHasUser =>
                /\ httpResponse = JsonResponse([error |-> Str("Unauthorized")], 401)
                /\ tokenCall = NoTokenCall
          /\ (RequestHasUser /\ tokenCall.result \in {JsNull, Str("")}) =>
                httpResponse = JsonResponse(
                    [error |-> Str("No valid Dynamics 365 credentials found")], 401)
          /\ (RequestHasUser /\ tokenCall.result \notin {JsNull, Str("")}
              /\ withoutEndpoint) =>
                httpResponse = JsonResponse([error |-> Str("Endpoint is required")], 400)
          /\ (outbound # <<>> /\ validation = NoValidation) =>
                httpResponse = JsonResponse([error |-> Str("fetch failed")], 500)
          /\ (validation # NoValidation /\ ~validation.outcome.ok
              /\ validation.outcome.err.name # "Dynamics365Error") =>
                httpResponse = JsonResponse([error |-> validation.outcome.err.message], 500)
    /\ outbound # <<>> =>
          /\ Len(outbound) = 1
          /\ RequestHasUser
          /\ tokenCall.done
          /\ tokenCall.result \notin {JsNull, Str("")}
          /\ ~withoutEndpoint
          /\ outbound[1].endpoint = Str("/accounts")
          /\ outbound[1].authorization = [scheme |-> "Bearer", token |-> tokenCall.result]

\* C20 as stated: the gating and its order for GET and POST, where a request
\* without an endpoint is a GET without (or with an empty) endpoint
\* parameter or a POST whose body gives no endpoint.
RouteGatingAnyBody ==
    RouteGating(\/ httpRequest.method = "GET"
                   /\ httpRequest.endpoint \in {JsNull, Str("")}
                \/ httpRequest.method = "POST"
                   /\ httpRequest.body \in {"", "null", "{}", "{\"endpoint\":\"\"}"})

\* C20 as amended: the gating and its order for GET and POST, where a
\* request without an endpoint is a GET without (or with an empty) endpoint
\* parameter or a POST whose body is JSON, is not null and has no (or an
\* empty) endpoint.
RouteGatingJsonBody ==
    RouteGating(\/ httpRequest.method = "GET"
                   /\ httpRequest.endpoint \in {JsNull, Str("")}
                \/ httpRequest.method = "POST"
                   /\ httpRequest.body \in {"{}", "{\"endpoint\":\"\"}"})

\* C20 witness: a POST without endpoint was answered with 400 after the
\* session check and a token refresh had passed, and without outbound
\* request.
EndpointRequiredAfterRefresh ==
    /\ dpc = "responded"
    /\ httpRequest.method = "POST"
    /\ httpRequest.body = "{}"
    /\ tokenCall.updates = 1
    /\ httpResponse.status = 400
    /\ outbound = <<>>

(***************************************************************************)
(* Properties of the default-value loop.                                   *)
(***************************************************************************)
\* The position of a sub-field in the definition.
DeclaredAt(id) == CHOOSE i \in DOMAIN RecorderFields : RecorderFields[i] = id

\* The sub-field at position k had the value null when extractParams
\* collected the values, and its definition has a default-value function.
DefaultDue(k) ==
    /\ defConfigs[k].hasValue
    /\ Get(defCollected, defConfigs[k].id) = JsNull

\* C22: single-pass default resolution. The default-value loop goes through
\* the sub-fields once in declaration order and calls each default-value
\* function at most once: the calls are those of the sub-fields passed so
\* far that were null, in declaration order. The argument of a call holds
\* every collected value, with the resolved value of every sub-field
\* declared earlier and the collected value of every sub-field declared
\* later; a sub-field without a call keeps its collected value.
SinglePassDefaults ==
    /\ \A a, b \in DOMAIN defCalls :
          a < b => DeclaredAt(defCalls[a]) < DeclaredAt(defCalls[b])
    /\ Range(defCalls) =
          {defConfigs[k].id : k \in {j \in DOMAIN defConfigs : j < defIndex /\ DefaultDue(j)}}
    /\ \A k \in DOMAIN defConfigs :
          LET id == defConfigs[k].id
          IN  IF k < defIndex /\ DefaultDue(k)
              THEN /\ defParams[id].t = "default"
                   /\ defParams[id].id = id
                   /\ DOMAIN defParams[id].args = DOMAIN defCollected
                   /\ \A j \in DOMAIN defConfigs :
                         LET other == defConfigs[j].id
                         IN  other \in DOMAIN defCollected =>
                                defParams[id].args[other] =
                                    IF j < k THEN defParams[other]
                                    ELSE defCollected[other]
              ELSE Get(defParams, id) = Get(defCollected, id)

\* C22 witness: the loop has passed three sub-fields, called the
\* default-value functions of the first and the third, and the third was
\* called with the default of the first while the second kept its value.
LaterDefaultSeesEarlier ==
    /\ defIndex = 4
    /\ defCalls = <<"first", "third">>
    /\ defParams["third"].args["first"] =
          RecordingValue("first", defCollected)
    /\ defParams["second"] = Str("x")

(***************************************************************************)
(* Properties of the Dynamics 365 tool binding.                            *)
(***************************************************************************)
\* C29: the tool id that the tool-resolution function of the Dynamics 365
\* block returns, for every operation for which it returns one, is one of
\* the accessible tools of the block.
ResolvedToolAccessible ==
    (toolPc \in {"resolved", "built", "requested"} /\ resolvedTool.ok) =>
        resolvedTool.val \in Range(Dynamics365Block.access)

\* C30: for the operation sales with a valid sales operation, a credential
\* and an organization URL, request.url of the dynamics365_sales tool on
\* the params that the block's params function built does not raise
\* "Invalid operation", and with a start date that is valid or not given
\* it returns the URL of the entity of the chosen sales operation.
SalesParamsAccepted ==
    ( /\ toolPc = "requested"
      /\ givenParams["operation"] = Str("sales")
      /\ givenParams["salesOperation"] \in ValidSalesOperations
      /\ Truthy(givenParams["credential"])
      /\ Truthy(givenParams["organizationUrl"]) ) =>
        /\ salesRequest # Throw("Invalid operation")
        /\ givenParams["startDate"] \in ValidDates \cup {JsNull} =>
              /\ salesRequest.ok
              /\ salesRequest.val.entity = SalesEntity(givenParams["salesOperation"])

=============================================================================
